---- MODULE Spec2Model ----
(***************************************************************************)
(* A model of artman's configuration-resolution pipeline:                  *)
(*   - config_util.merge / replace_vars / load_config_spec                 *)
(*   - config/loader.py  load_artifact_config (validate, overlay,          *)
(*     normalize)                                                          *)
(*   - cli/converter.py  _convert (legacy document -> Config)              *)
(* Each component has its own specification (SpecMerge, SpecReplace,       *)
(* SpecLoader, SpecConvert); the variables of the other components are     *)
(* parked while one component runs.                                        *)
(***************************************************************************)
EXTENDS Integers, Sequences, FiniteSets, TLC

VARIABLES
    \* config_util.merge
    dictionaries,   \* the positional arguments of merge, left to right
    answer,         \* the accumulator `answer`
    merge_i,        \* index of the next dictionary the outer loop visits
    merge_pc,       \* "idle" | "loop" | "returned" | "raised"
    merge_result,   \* <<>> while nothing was returned, <<d>> once d is returned
    arg_ids,        \* the identity of the object passed at each position
    held,           \* per key, the argument whose value object `answer` holds
    \* config_util.replace_vars
    data,           \* the value handed to replace_vars
    repl_vars,      \* the replacement dict, as its items in iteration order
    once,           \* replace_vars(data, repl_vars)
    twice,          \* replace_vars(once, repl_vars)
    repl_pc,        \* "idle" | "start" | "once" | "twice"
    \* config/loader.py load_artifact_config
    config,          \* the parsed Config: [common, artifacts]
    artifact_name,   \* the requested artifact name
    input_dir,       \* the caller-supplied input directory
    artifact_config, \* the local Artifact message, <<>> before it is built
    ld_error,        \* the ValueError raised, NoError while none
    ld_result,       \* <<>> until the Artifact is returned, then <<a>>
    ld_pc,           \* "idle" | "start" | "validated" | "merged" | "returned" | "raised"
    \* cli/converter.py _convert
    legacy_config,   \* the legacy document
    result_common,   \* result.common as filled so far, <<>> before
    cv_artifacts,    \* the list `result` of _compute_artifacts
    cv_lang,         \* index into LANGS of the language the loop visits next
    cv_error,        \* "" | "common" (exit 2) | "TypeError" | "AttributeError"
    cv_result,       \* <<>> until _convert returns, then <<Config>>
    cv_pc,           \* "idle" | "start" | "artifacts" | "returned" | "exited" | "raised"
    \* config_util.load_config_spec
    config_spec,     \* the spec string, `path` or `path:section|section`
    config_sections, \* the default sections, as the caller passes them
    all_config_data, \* the YAML document: section name -> mapping
    language,        \* the language whose section is merged last
    lcs_repl_vars,   \* the replacement dict, as its items in iteration order
    segments,        \* the list `segments`, <<>> before it is built
    lcs_config,      \* <<>> until merge returned, then <<config>>
    lcs_result,      \* <<>> until load_config_spec returns, then <<mapping>>
    lcs_error,       \* "" | "KeyError" | "ValueError"
    lcs_pc,          \* "idle" | "start" | "selected" | "merged" | "returned" | "raised"
    \* main2.normalize_flags, from the point where the legacy config is written
    nf_flags,        \* flags.subcommand and flags.publish_target
    nf_artifact,     \* artifact_config: its publish_targets
    nf_files,        \* the two config files: whether each exists, its document
    support_ok,      \* whether the calls into `support` of the github branch succeed
    tmp_exists,      \* whether the file `<config>.tmp` exists
    nf_i,            \* index of the config spec the loop of line 266 loads next
    pipeline_args,   \* the loaded configuration and the value of key `publish`
    nf_error,        \* "" or the name of the exception raised
    nf_pc            \* "idle" | "start" | "loading" | "loaded" | "published" | "returned" | "raised"

mergeVars ==
    <<dictionaries, answer, merge_i, merge_pc, merge_result, arg_ids, held>>
replVars == <<data, repl_vars, once, twice, repl_pc>>
loaderVars ==
    <<config, artifact_name, input_dir, artifact_config, ld_error, ld_result, ld_pc>>

convVars ==
    <<legacy_config, result_common, cv_artifacts, cv_lang, cv_error, cv_result, cv_pc>>

specVars ==
    <<config_spec, config_sections, all_config_data, language, lcs_repl_vars,
      segments, lcs_config, lcs_result, lcs_error, lcs_pc>>

normVars ==
    <<nf_flags, nf_artifact, nf_files, support_ok, tmp_exists, nf_i,
      pipeline_args, nf_error, nf_pc>>

vars == <<mergeVars, replVars, loaderVars, convVars, specVars, normVars>>

\* what a component leaves alone: the variables of the other components
notMerge == <<replVars, loaderVars, convVars, specVars, normVars>>
notRepl == <<mergeVars, loaderVars, convVars, specVars, normVars>>
notLoader == <<mergeVars, replVars, convVars, specVars, normVars>>
notConv == <<mergeVars, replVars, loaderVars, specVars, normVars>>
notSpec == <<mergeVars, replVars, loaderVars, convVars, normVars>>
notNorm == <<mergeVars, replVars, loaderVars, convVars, specVars>>

\* The state of a component that is not running.
MergeParked ==
    /\ dictionaries = <<>>
    /\ answer = <<>>
    /\ merge_i = 0
    /\ merge_pc = "idle"
    /\ merge_result = <<>>
    /\ arg_ids = <<>>
    /\ held = <<>>

ReplParked ==
    /\ data = <<>>
    /\ repl_vars = <<>>
    /\ once = <<>>
    /\ twice = <<>>
    /\ repl_pc = "idle"

LoaderParked ==
    /\ config = <<>>
    /\ artifact_name = ""
    /\ input_dir = <<>>
    /\ artifact_config = <<>>
    /\ ld_error = <<>>
    /\ ld_result = <<>>
    /\ ld_pc = "idle"

ConvParked ==
    /\ legacy_config = <<>>
    /\ result_common = <<>>
    /\ cv_artifacts = <<>>
    /\ cv_lang = 0
    /\ cv_error = ""
    /\ cv_result = <<>>
    /\ cv_pc = "idle"

SpecParked ==
    /\ config_spec = <<>>
    /\ config_sections = <<>>
    /\ all_config_data = <<>>
    /\ language = <<>>
    /\ lcs_repl_vars = <<>>
    /\ segments = <<>>
    /\ lcs_config = <<>>
    /\ lcs_result = <<>>
    /\ lcs_error = ""
    /\ lcs_pc = "idle"

NormParked ==
    /\ nf_flags = <<>>
    /\ nf_artifact = <<>>
    /\ nf_files = <<>>
    /\ support_ok = FALSE
    /\ tmp_exists = FALSE
    /\ nf_i = 0
    /\ pipeline_args = <<>>
    /\ nf_error = ""
    /\ nf_pc = "idle"

(***************************************************************************)
(* Python values.  A value is a record tagged with its kind; the fields    *)
(* that do not belong to the kind hold a fixed filler so that equal Python *)
(* values are equal records.  A mapping is a function over a fixed key set *)
(* whose missing keys hold the value of kind "absent".                     *)
(*   depth-0 values (leaves):  [kind, s, l, e]                             *)
(*   depth-1 values:           [kind, s, l, e, d]   d : NestedKeys -> leaf *)
(*   a top-level mapping:      Keys -> depth-1 value                       *)
(***************************************************************************)
MaxSources == 3

Keys == {"a", "b"}
NestedKeys == {"x"}
Scalars == {1, 2}
Lists == {<<1>>, <<2, 1>>}
Sets == {{1}, {2}}

Absent0 == [kind |-> "absent", s |-> 0, l |-> <<>>, e |-> {}]
Scalar0(n) == [kind |-> "scalar", s |-> n, l |-> <<>>, e |-> {}]
List0(q) == [kind |-> "list", s |-> 0, l |-> q, e |-> {}]
Set0(t) == [kind |-> "set", s |-> 0, l |-> <<>>, e |-> t]

Leaves ==
    {Absent0} \cup {Scalar0(n) : n \in Scalars}
              \cup {List0(q) : q \in Lists} \cup {Set0(t) : t \in Sets}

NoDict == [k \in NestedKeys |-> Absent0]

Lift(v) == [kind |-> v.kind, s |-> v.s, l |-> v.l, e |-> v.e, d |-> NoDict]
Dict1(f) == [kind |-> "dict", s |-> 0, l |-> <<>>, e |-> {}, d |-> f]
Absent1 == Lift(Absent0)

Values1 == {Lift(v) : v \in Leaves} \cup {Dict1(f) : f \in [NestedKeys -> Leaves]}

\* The values the second top-level key takes: missing, or a list.
SideValues == {Absent1, Lift(List0(<<2, 1>>))}

\* The mappings merge is called with.
Dicts == {d \in [Keys -> Values1] : d["b"] \in SideValues}

EmptyLike(d) ==
    [k \in DOMAIN d |-> IF "d" \in DOMAIN d[k] THEN Absent1 ELSE Absent0]

Present(d) == {k \in DOMAIN d : d[k].kind # "absent"}

(***************************************************************************)
(* config_util.merge.  MergeItemRaises / MergeItem are one pass of the     *)
(* inner loop body for a key already in `answer`; MergeOne is the inner    *)
(* loop over one dictionary; merge folds the dictionaries left to right.   *)
(***************************************************************************)
RECURSIVE MergeRaises(_, _), MergeFold(_, _)

\* Mutant: the isinstance check guarding the set union is missing.
MergeItemRaises_NoSetCheck(old, v) ==
    IF old.kind = "absent" THEN FALSE
    ELSE IF old.kind = "list" THEN v.kind # "list"
    ELSE IF old.kind = "set" THEN FALSE
    ELSE IF old.kind = "dict"
         THEN v.kind # "dict" \/ MergeRaises(EmptyLike(old.d), <<old.d, v.d>>)
    ELSE FALSE

MergeItemRaises(old, v) ==
    IF old.kind = "absent" THEN FALSE
    ELSE IF old.kind = "list" THEN v.kind # "list"
    ELSE IF old.kind = "set" THEN v.kind # "set"
    ELSE IF old.kind = "dict"
         THEN v.kind # "dict" \/ MergeRaises(EmptyLike(old.d), <<old.d, v.d>>)
    ELSE FALSE

\* Mutant: for primitives the left-hand value is kept.
MergeItem_LeftWins(old, v) ==
    IF old.kind = "absent" THEN v
    ELSE IF old.kind = "list" THEN [old EXCEPT !.l = old.l \o v.l]
    ELSE IF old.kind = "set" THEN [old EXCEPT !.e = old.e \cup v.e]
    ELSE IF old.kind = "dict"
         THEN [old EXCEPT !.d = MergeFold(EmptyLike(old.d), <<old.d, v.d>>)]
    ELSE old

\* Mutant: the new list is put in front of the accumulated one.
MergeItem_Prepend(old, v) ==
    IF old.kind = "absent" THEN v
    ELSE IF old.kind = "list" THEN [old EXCEPT !.l = v.l \o old.l]
    ELSE IF old.kind = "set" THEN [old EXCEPT !.e = old.e \cup v.e]
    ELSE IF old.kind = "dict"
         THEN [old EXCEPT !.d = MergeFold(EmptyLike(old.d), <<old.d, v.d>>)]
    ELSE v

MergeItem(old, v) ==
    IF old.kind = "absent" THEN v
    ELSE IF old.kind = "list" THEN [old EXCEPT !.l = old.l \o v.l]
    ELSE IF old.kind = "set" THEN [old EXCEPT !.e = old.e \cup v.e]
    ELSE IF old.kind = "dict"
         THEN [old EXCEPT !.d = MergeFold(EmptyLike(old.d), <<old.d, v.d>>)]
    ELSE v

\* The inner loop `for k, v in six.iteritems(d)`.
MergeOneRaises(acc, d) ==
    \E k \in Present(d) : MergeItemRaises(acc[k], d[k])

MergeOne(acc, d) ==
    [k \in DOMAIN acc |->
        IF d[k].kind = "absent" THEN acc[k] ELSE MergeItem(acc[k], d[k])]

\* The outer loop `for d in dictionaries`, from accumulator acc.
MergeRaises(acc, ds) ==
    IF ds = <<>> THEN FALSE
    ELSE MergeOneRaises(acc, Head(ds))
         \/ MergeRaises(MergeOne(acc, Head(ds)), Tail(ds))

MergeFold(acc, ds) ==
    IF ds = <<>> THEN acc
    ELSE MergeFold(MergeOne(acc, Head(ds)), Tail(ds))

EmptyDict == [k \in Keys |-> Absent1]

(***************************************************************************)
(* Object identity.  Each argument is an object with an identity (a        *)
(* positive number; the same object may be passed at several positions),   *)
(* and binding `answer[k] = v` makes the accumulator hold the very object  *)
(* the argument holds under k.  `held` records, for each key and each key  *)
(* of a nested mapping, the identity of the argument whose value object    *)
(* the accumulator holds there, 0 for an object that merge built.          *)
(***************************************************************************)
\* line 63: `answer = {}` is a new object, no argument has its identity
AnswerObject == 0

\* Mutant: lists are extended in place (`answer[k] += v`).
CombinedObject_ListInPlace(kind) == IF kind = "list" THEN "same" ELSE "new"

\* lines 76, 83, 91: `+`, `|` and the recursive merge each build a new object
CombinedObject(kind) == "new"

NoHold == [top |-> 0, d |-> [x \in NestedKeys |-> 0]]

\* `held` for one key after the loop body ran on value v of argument `me`
HeldAfter(h, old, v, me) ==
    IF old.kind \in {"absent", "scalar"}
    THEN [top |-> me,
          d |-> [x \in NestedKeys |->
                    IF v.kind = "dict" /\ v.d[x].kind # "absent" THEN me ELSE 0]]
    ELSE IF old.kind \in {"list", "set"}
    THEN IF CombinedObject(old.kind) = "same" THEN h ELSE NoHold
    ELSE [top |-> 0,
          d |-> [x \in NestedKeys |->
                    IF v.d[x].kind = "absent" THEN h.d[x]
                    ELSE IF old.d[x].kind \in {"absent", "scalar"} THEN me
                    ELSE IF CombinedObject(old.d[x].kind) = "same" THEN h.d[x]
                    ELSE 0]]

HeldOne(h, acc, d, me) ==
    [k \in DOMAIN acc |->
        IF d[k].kind = "absent" THEN h[k] ELSE HeldAfter(h[k], acc[k], d[k], me)]

\* a value that the loop body changes in place when it combines into it
InPlace(old, v) ==
    /\ old.kind \in {"list", "set"}
    /\ v.kind # "absent"
    /\ CombinedObject(old.kind) = "same"

\* The argument objects after one pass of the inner loop over d took the
\* accumulator from acc to acc2: an object changes when `answer` is that
\* object, or when the accumulator holds one of its values and changes it in
\* place.
ArgsAfter(ds, ids, h, acc, acc2, d) ==
    [i \in DOMAIN ds |->
        IF ids[i] = AnswerObject THEN acc2
        ELSE [k \in DOMAIN ds[i] |->
                 IF InPlace(acc[k], d[k]) /\ h[k].top = ids[i] THEN acc2[k]
                 ELSE IF acc[k].kind = "dict" /\ d[k].kind = "dict"
                 THEN [ds[i][k] EXCEPT !.d =
                          [x \in NestedKeys |->
                              IF InPlace(acc[k].d[x], d[k].d[x]) /\ h[k].d[x] = ids[i]
                              THEN acc2[k].d[x] ELSE @[x]]]
                 ELSE ds[i][k]]]

\* Identities for the positions of ds: position i is a new object, or the
\* object passed at an earlier position, which then holds the same value.
IdShapes ==
    [n \in 0..MaxSources |->
        {ids \in [1..n -> 1..MaxSources] :
            \A i \in 1..n : ids[i] <= i /\ ids[ids[i]] = ids[i]}]

IdsFor(ds) ==
    {ids \in IdShapes[Len(ds)] : \A i \in DOMAIN ds : ds[ids[i]] = ds[i]}

MergeInit ==
    /\ dictionaries \in UNION {[1..n -> Dicts] : n \in 0..MaxSources}
    /\ arg_ids \in IdsFor(dictionaries)
    /\ held = [k \in Keys |-> NoHold]
    /\ answer = EmptyDict
    /\ merge_i = 1
    /\ merge_pc = "loop"
    /\ merge_result = <<>>
    /\ ReplParked /\ LoaderParked /\ ConvParked /\ SpecParked /\ NormParked

\* One iteration of the outer loop that completes without raising.
MergeStep ==
    /\ merge_pc = "loop"
    /\ merge_i <= Len(dictionaries)
    /\ ~MergeOneRaises(answer, dictionaries[merge_i])
    /\ answer' = MergeOne(answer, dictionaries[merge_i])
    /\ held' = HeldOne(held, answer, dictionaries[merge_i], arg_ids[merge_i])
    /\ dictionaries' = ArgsAfter(dictionaries, arg_ids, held, answer, answer',
                                 dictionaries[merge_i])
    /\ merge_i' = merge_i + 1
    /\ UNCHANGED <<merge_pc, merge_result, arg_ids, notMerge>>

\* One iteration of the outer loop that raises ValueError.
MergeRaise ==
    /\ merge_pc = "loop"
    /\ merge_i <= Len(dictionaries)
    /\ MergeOneRaises(answer, dictionaries[merge_i])
    /\ merge_pc' = "raised"
    /\ UNCHANGED <<dictionaries, answer, merge_i, merge_result, arg_ids, held,
                   notMerge>>

\* `return answer`
MergeReturn ==
    /\ merge_pc = "loop"
    /\ merge_i > Len(dictionaries)
    /\ merge_pc' = "returned"
    /\ merge_result' = <<answer>>
    /\ UNCHANGED <<dictionaries, answer, merge_i, arg_ids, held, notMerge>>

MergeNext == MergeStep \/ MergeRaise \/ MergeReturn

SpecMerge == MergeInit /\ [][MergeNext]_vars

(***************************************************************************)
(* Claims about merge.                                                     *)
(***************************************************************************)
Containers == {"dict", "list", "set"}

\* Two sources i < j hold different container kinds at the same key, at the
\* top level or inside nested mappings found at the same top-level key.
KindClashAt(i, j) ==
    \E k \in Keys :
        LET u == dictionaries[i][k]
            w == dictionaries[j][k]
        IN  \/ /\ u.kind \in Containers
               /\ w.kind \in Containers
               /\ u.kind # w.kind
            \/ /\ u.kind = "dict"
               /\ w.kind = "dict"
               /\ \E x \in NestedKeys :
                      /\ u.d[x].kind \in Containers
                      /\ w.d[x].kind \in Containers
                      /\ u.d[x].kind # w.d[x].kind

KindClash ==
    \E i, j \in 1..Len(dictionaries) : i < j /\ KindClashAt(i, j)

\* C2: whenever two sources hold different container kinds at one key (either
\* order, any depth, adjacent or not), merge never gets past its loop to the
\* return: it ends in the raise and hands out no mapping, partial or whole.
C2_KindClashRaises ==
    KindClash =>
        /\ merge_result = <<>>
        /\ merge_pc \in {"loop", "raised"}
        /\ merge_i <= Len(dictionaries)

\* C2 witness: merge has raised on three sources whose only clash is a nested
\* one between the first and the third.
C2_Witness ==
    /\ merge_pc = "raised"
    /\ Len(dictionaries) = 3
    /\ KindClashAt(1, 3)
    /\ ~KindClashAt(1, 2)
    /\ ~KindClashAt(2, 3)
    /\ \A k \in Keys :
           dictionaries[1][k].kind \in Containers
               => dictionaries[1][k].kind = dictionaries[3][k].kind

\* The loop is about to visit dictionary d, whose only key is k.
Visiting(k) ==
    /\ merge_pc = "loop"
    /\ merge_i <= Len(dictionaries)
    /\ Present(dictionaries[merge_i]) = {k}

\* The pairings the claim says are overwritten: old and new both present, and
\* at least one of them a scalar.
ScalarPairing(old, new) ==
    /\ old.kind # "absent"
    /\ new.kind # "absent"
    /\ old.kind = "scalar" \/ new.kind = "scalar"

\* C10 as stated: every scalar pairing, in either order, is overwritten by the
\* new value without an error (top level and inside a nested mapping).
C10_Original ==
    [][\A k \in Keys :
          LET old == answer[k]
              new == dictionaries[merge_i][k]
          IN  /\ Visiting(k) /\ ScalarPairing(old, new)
                  => merge_pc' = "loop" /\ answer'[k] = new
              /\ \A x \in NestedKeys :
                     Visiting(k) /\ old.kind = "dict" /\ new.kind = "dict"
                         /\ ScalarPairing(old.d[x], new.d[x])
                         => merge_pc' = "loop" /\ answer'[k].d[x] = new.d[x]
      ]_vars

\* Every source that holds key k holds a scalar there.
OnlyScalarsAt(k) ==
    \A i \in 1..Len(dictionaries) :
        dictionaries[i][k].kind \in {"absent", "scalar"}

Holders(k) == {i \in 1..Len(dictionaries) : dictionaries[i][k].kind # "absent"}

Last(S) == CHOOSE i \in S : \A j \in S : j <= i

RightmostScalarWins ==
    \A k \in Keys :
        /\ merge_pc = "returned"
        /\ OnlyScalarsAt(k)
        /\ Holders(k) # {}
        => merge_result[1][k] = dictionaries[Last(Holders(k))][k]

\* C10 amended: when the value already in the accumulator is a scalar, the new
\* value (scalar or container) overwrites it and nothing is raised; when the
\* accumulator holds a list, set or mapping and the new value is a scalar,
\* merge raises.  A key that holds scalars in every source that has it ends
\* with the value of the right-most of them.
C10_ScalarOverwrite ==
    /\ []RightmostScalarWins
    /\ [][\A k \in Keys :
             LET old == answer[k]
                 new == dictionaries[merge_i][k]
             IN  /\ Visiting(k) /\ old.kind = "scalar"
                     => merge_pc' = "loop" /\ answer'[k] = new
                 /\ Visiting(k) /\ old.kind \in Containers /\ new.kind = "scalar"
                     => merge_pc' = "raised"
                 /\ \A x \in NestedKeys :
                        Visiting(k) /\ old.kind = "dict" /\ new.kind = "dict"
                        => /\ old.d[x].kind = "scalar" /\ new.d[x].kind # "absent"
                               => merge_pc' = "loop" /\ answer'[k].d[x] = new.d[x]
                           /\ old.d[x].kind \in Containers
                                  /\ new.d[x].kind = "scalar"
                               => merge_pc' = "raised"
         ]_vars

\* C10 witness: merge returned after a scalar was overwritten by a mapping and
\* then a nested scalar of that mapping by another scalar, while the list
\* under the other key was left alone.
C10_Witness ==
    /\ merge_pc = "returned"
    /\ Len(dictionaries) = 3
    /\ dictionaries[1]["a"].kind = "scalar"
    /\ dictionaries[2]["a"].kind = "dict"
    /\ dictionaries[3]["a"].kind = "dict"
    /\ dictionaries[2]["a"].d["x"] = Scalar0(1)
    /\ dictionaries[3]["a"].d["x"] = Scalar0(2)
    /\ merge_result[1]["a"].d["x"] = Scalar0(2)
    /\ dictionaries[1]["b"].kind = "list"
    /\ merge_result[1]["b"] = dictionaries[1]["b"]

RECURSIVE ConcatAll(_)
ConcatAll(qs) == IF qs = <<>> THEN <<>> ELSE Head(qs) \o ConcatAll(Tail(qs))

\* the value of every source under key k
TopAt(k) == [i \in 1..Len(dictionaries) |-> dictionaries[i][k]]
\* the value of every source under key x of the mapping under key k
NestedAt(k, x) ==
    [i \in 1..Len(dictionaries) |->
        IF dictionaries[i][k].kind = "dict" THEN dictionaries[i][k].d[x] ELSE Absent0]

\* the lists of the sources that hold one, in source order
ListsOf(vals) ==
    LET holding == SelectSeq(vals, LAMBDA v : v.kind = "list")
    IN  [i \in DOMAIN holding |-> holding[i].l]

OnlyLists(vals) ==
    /\ \A i \in DOMAIN vals : vals[i].kind \in {"absent", "list"}
    /\ \E i \in DOMAIN vals : vals[i].kind = "list"

OnlyDicts(vals) ==
    /\ \A i \in DOMAIN vals : vals[i].kind \in {"absent", "dict"}
    /\ \E i \in DOMAIN vals : vals[i].kind = "dict"

\* C11: when merge returns, a key that holds a list in every source that has
\* it holds the concatenation of those lists in source order, every element
\* kept and in place; the same for a key of a nested mapping that every
\* source holding the outer key holds as a mapping.
C11_ListsConcatenatedInOrder ==
    merge_pc = "returned" =>
        \A k \in Keys :
            /\ OnlyLists(TopAt(k)) =>
                   /\ merge_result[1][k].kind = "list"
                   /\ merge_result[1][k].l = ConcatAll(ListsOf(TopAt(k)))
            /\ OnlyDicts(TopAt(k)) =>
                   \A x \in NestedKeys :
                       OnlyLists(NestedAt(k, x)) =>
                           /\ merge_result[1][k].d[x].kind = "list"
                           /\ merge_result[1][k].d[x].l =
                                  ConcatAll(ListsOf(NestedAt(k, x)))

\* C11 witness: three sources were merged; the first and the third hold
\* different lists under a nested key, and the result holds four elements.
C11_Witness ==
    /\ merge_pc = "returned"
    /\ Len(dictionaries) = 3
    /\ OnlyDicts(TopAt("a"))
    /\ dictionaries[1]["a"].d["x"] = List0(<<2, 1>>)
    /\ dictionaries[2]["a"].kind = "dict"
    /\ dictionaries[2]["a"].d["x"] = Absent0
    /\ dictionaries[3]["a"].d["x"] = List0(<<1>>)
    /\ merge_result[1]["a"].d["x"].l = <<2, 1, 1>>
    /\ merge_result[1]["b"].l = <<2, 1, 2, 1>>

\* C19: merge never modifies its arguments.  No step of merge, up to and
\* including the one that returns or raises, changes a mapping that was passed
\* to it or a mapping, sequence or set inside one, for any number of sources,
\* also when one mapping object is passed at several positions, when the
\* sequences of a key are concatenated and when nested mappings are merged.
C19_ArgumentsNeverChange == [][dictionaries' = dictionaries]_vars

\* merge returned after the same mapping object was passed twice, its sequence
\* under a key was concatenated with itself and its nested mapping was merged
\* with itself.
C19_Witness ==
    /\ merge_pc = "returned"
    /\ \E i, j \in DOMAIN dictionaries :
           /\ i < j
           /\ arg_ids[i] = arg_ids[j]
           /\ \E k \in Keys :
                  /\ dictionaries[i][k].kind = "list"
                  /\ Len(merge_result[1][k].l) > Len(dictionaries[i][k].l)
                  /\ held[k].top = 0
           /\ \E k \in Keys :
                  /\ dictionaries[i][k].kind = "dict"
                  /\ merge_result[1][k].kind = "dict"
                  /\ held[k].top = 0

(***************************************************************************)
(* config_util.replace_vars.  A string is a sequence of one-character      *)
(* strings.  The data is a string, another scalar, a sequence of leaves or *)
(* a mapping (its keys in order, and the values beside them in `items`).   *)
(***************************************************************************)
MaxPieces == 3
MaxItems == 2

Token(k) == <<"$", "{">> \o k \o <<"}">>

ReplKeys == {<<"A">>, <<"B">>}
ReplValues == {<<>>, <<"A">>, <<"x">>, <<"$">>, Token(<<"A">>), Token(<<"B">>)}

\* Input strings are built from these pieces, so that whole tokens, broken
\* tokens and tokens nested in one another all occur within MaxPieces.
Pieces ==
    {<<"$">>, <<"{">>, <<"}">>, <<"A">>, <<"B">>, <<"$", "{">>,
     Token(<<"A">>), Token(<<"B">>)}

RECURSIVE Flatten(_)
Flatten(ps) == IF ps = <<>> THEN <<>> ELSE Head(ps) \o Flatten(Tail(ps))

Strings == {Flatten(ps) : ps \in UNION {[1..n -> Pieces] : n \in 0..MaxPieces}}
ItemStrings == {<<>>, <<"A">>, <<"$">>, Token(<<"A">>), Token(<<"B">>)}

Str0(t) == [kind |-> "str", str |-> t, n |-> 0]
Num0(n) == [kind |-> "num", str |-> <<>>, n |-> n]
ItemValues == {Str0(t) : t \in ItemStrings} \cup {Num0(7)}
ItemSeqs == UNION {[1..n -> ItemValues] : n \in 0..MaxItems}
MapKeys == <<"p", "q", "r", "s">>

Top(v) == [kind |-> v.kind, str |-> v.str, n |-> v.n, keys |-> <<>>, items |-> <<>>]
SeqData(q) == [kind |-> "seq", str |-> <<>>, n |-> 0, keys |-> <<>>, items |-> q]
MapData(q) ==
    [kind |-> "map", str |-> <<>>, n |-> 0,
     keys |-> SubSeq(MapKeys, 1, Len(q)), items |-> q]

DataValues ==
    {Top(Str0(t)) : t \in Strings} \cup {Top(Num0(7))}
        \cup {SeqData(q) : q \in ItemSeqs} \cup {MapData(q) : q \in ItemSeqs}

\* dicts {k: v} over ReplKeys, as the sequence of items their iteration yields
ReplDicts ==
    {r \in UNION {[1..n -> ReplKeys \X ReplValues] : n \in 0..Cardinality(ReplKeys)} :
        \A i, j \in DOMAIN r : i # j => r[i][1] # r[j][1]}

RECURSIVE str_replace(_, _, _), str_replace_first(_, _, _), ReplaceEach(_, _)
RECURSIVE replace_vars(_, _)

\* Mutant: str.replace(old, new, 1), only the first occurrence is replaced.
str_replace_first(t, old, new) ==
    IF Len(t) < Len(old) THEN t
    ELSE IF SubSeq(t, 1, Len(old)) = old
         THEN new \o SubSeq(t, Len(old) + 1, Len(t))
    ELSE <<Head(t)>> \o str_replace_first(Tail(t), old, new)

\* Python's str.replace(old, new) for a non-empty old: every non-overlapping
\* occurrence, found left to right.
str_replace(t, old, new) ==
    IF Len(t) < Len(old) THEN t
    ELSE IF SubSeq(t, 1, Len(old)) = old
         THEN new \o str_replace(SubSeq(t, Len(old) + 1, Len(t)), old, new)
    ELSE <<Head(t)>> \o str_replace(Tail(t), old, new)

\* for k, v in repl_vars.items(): data = data.replace('${' + k + '}', v)
ReplaceEach(t, r) ==
    IF r = <<>> THEN t
    ELSE ReplaceEach(str_replace(t, Token(Head(r)[1]), Head(r)[2]), Tail(r))

\* Mutant: only a top-level string is resolved, containers are returned as
\* they are.
replace_vars_TopOnly(v, r) ==
    IF v.kind = "str" THEN [v EXCEPT !.str = ReplaceEach(v.str, r)] ELSE v

replace_vars(v, r) ==
    IF v.kind = "str" THEN [v EXCEPT !.str = ReplaceEach(v.str, r)]
    ELSE IF v.kind = "seq"
         THEN [v EXCEPT !.items = [i \in DOMAIN v.items |-> replace_vars(v.items[i], r)]]
    ELSE IF v.kind = "map"
         THEN [v EXCEPT !.items = [i \in DOMAIN v.items |-> replace_vars(v.items[i], r)]]
    ELSE v

ReplInit ==
    /\ data \in DataValues
    /\ repl_vars \in ReplDicts
    /\ once = <<>>
    /\ twice = <<>>
    /\ repl_pc = "start"
    /\ MergeParked /\ LoaderParked /\ ConvParked /\ SpecParked /\ NormParked

ReplaceOnce ==
    /\ repl_pc = "start"
    /\ once' = replace_vars(data, repl_vars)
    /\ repl_pc' = "once"
    /\ UNCHANGED <<data, repl_vars, twice, notRepl>>

\* The result of one pass is resolved again with the same replacements.
ReplaceTwice ==
    /\ repl_pc = "once"
    /\ twice' = replace_vars(once, repl_vars)
    /\ repl_pc' = "twice"
    /\ UNCHANGED <<data, repl_vars, once, notRepl>>

ReplNext == ReplaceOnce \/ ReplaceTwice

SpecReplace == ReplInit /\ [][ReplNext]_vars

(***************************************************************************)
(* Claims about replace_vars.                                              *)
(***************************************************************************)
HasToken(t, k) ==
    \E i \in 1..(Len(t) - Len(Token(k)) + 1) :
        SubSeq(t, i, i + Len(Token(k)) - 1) = Token(k)

\* the strings anywhere in a value
StringsOf(v) ==
    IF v.kind = "str" THEN {v.str}
    ELSE {v.items[i].str : i \in {j \in DOMAIN v.items : v.items[j].kind = "str"}}

KeysOf(r) == {r[i][1] : i \in DOMAIN r}

NoKnownTokenLeft(v) ==
    \A t \in StringsOf(v) : \A k \in KeysOf(repl_vars) : ~HasToken(t, k)

\* C3 as stated: for every value and every replacement map a second pass
\* changes nothing, and after one pass no ${K} with K a key of the map is left.
C3_Original ==
    /\ repl_pc \in {"once", "twice"} => NoKnownTokenLeft(once)
    /\ repl_pc = "twice" => twice = once

Special == {"$", "{", "}"}
Plain(t) == \A i \in DOMAIN t : t[i] \notin Special

\* t is plain text interleaved with whole tokens ${NAME}, NAME plain
RECURSIVE WellFormed(_)
WellFormed(t) ==
    \/ t = <<>>
    \/ Head(t) \notin Special /\ WellFormed(Tail(t))
    \/ /\ Len(t) >= 3
       /\ t[1] = "$"
       /\ t[2] = "{"
       /\ \E j \in 3..Len(t) :
              /\ t[j] = "}"
              /\ Plain(SubSeq(t, 3, j - 1))
              /\ WellFormed(SubSeq(t, j + 1, Len(t)))

CleanInput ==
    /\ \A t \in StringsOf(data) : WellFormed(t)
    /\ \A i \in DOMAIN repl_vars : Plain(repl_vars[i][1]) /\ Plain(repl_vars[i][2])

\* C3 amended: when the characters $, { and } occur in the input strings only
\* as parts of whole tokens ${NAME}, and no key or replacement value contains
\* any of them, one pass leaves no ${K} with K a key of the map, and a second
\* pass changes nothing, whatever the iteration order of the map.
C3_IdempotentOnCleanInput ==
    CleanInput =>
        /\ repl_pc \in {"once", "twice"} => NoKnownTokenLeft(once)
        /\ repl_pc = "twice" => twice = once

\* C3 witness: two passes over a clean input in which the first pass replaced
\* two tokens of a two-key map, one of them inside a container.
C3_Witness ==
    /\ repl_pc = "twice"
    /\ CleanInput
    /\ Len(repl_vars) = 2
    /\ data.kind = "seq"
    /\ \E i, j \in DOMAIN data.items :
           /\ data.items[i].str = Token(<<"A">>)
           /\ data.items[j].str = Token(<<"B">>)
    /\ once # data
    /\ twice = once

\* the value mapped to the key whose token starts t, if there is one
StartsWithToken(t, r) ==
    {i \in DOMAIN r : Len(t) >= Len(Token(r[i][1]))
                        /\ SubSeq(t, 1, Len(Token(r[i][1]))) = Token(r[i][1])}

\* t read once, left to right: each token of a key of r gives way to the
\* key's value, every other character stays
RECURSIVE Substituted(_, _)
Substituted(t, r) ==
    IF t = <<>> THEN <<>>
    ELSE IF StartsWithToken(t, r) # {}
         THEN LET i == CHOOSE j \in StartsWithToken(t, r) : TRUE
              IN  r[i][2] \o Substituted(SubSeq(t, Len(Token(r[i][1])) + 1, Len(t)), r)
    ELSE <<Head(t)>> \o Substituted(Tail(t), r)

SubstitutedLeaf(v, r) ==
    IF v.kind = "str" THEN [v EXCEPT !.str = Substituted(v.str, r)] ELSE v

\* the value the claim describes: same container, keys and order, every
\* string substituted, every other leaf as it was
SubstitutedValue(v, r) ==
    IF v.kind \in {"seq", "map"}
    THEN [v EXCEPT !.items = [i \in DOMAIN v.items |-> SubstitutedLeaf(v.items[i], r)]]
    ELSE [v EXCEPT !.str = IF v.kind = "str" THEN Substituted(v.str, r) ELSE v.str]

SameShape(v, w) ==
    /\ w.kind = v.kind
    /\ w.keys = v.keys
    /\ w.n = v.n
    /\ DOMAIN w.items = DOMAIN v.items
    /\ \A i \in DOMAIN v.items :
           /\ w.items[i].kind = v.items[i].kind
           /\ v.items[i].kind # "str" => w.items[i] = v.items[i]

\* C12 as stated: for every value and every replacement map the result is
\* the value with each ${KEY} of a key of the map replaced by the key's value
\* and every other character, unknown tokens included, left as it was.
C12_Original ==
    repl_pc \in {"once", "twice"} => once = SubstitutedValue(data, repl_vars)

\* C12 amended: the result always has the container kind, keys, length and
\* order of the input and its non-string leaves; when the input strings hold
\* $, { and } only in whole tokens and no key or replacement value holds any
\* of them, every string of the result is the input string with each token
\* of a key of the map replaced by the key's value and the rest verbatim.
C12_SubstitutesCleanInput ==
    repl_pc \in {"once", "twice"} =>
        /\ SameShape(data, once)
        /\ CleanInput => once = SubstitutedValue(data, repl_vars)

\* C12 witness: a mapping of two strings was resolved with a one-key map: the
\* token of the key was replaced, the token of an unknown name was kept.
C12_Witness ==
    /\ repl_pc = "once"
    /\ CleanInput
    /\ KeysOf(repl_vars) = {<<"A">>}
    /\ data.kind = "map"
    /\ Len(data.items) = 2
    /\ data.items[1] = Str0(Token(<<"A">>))
    /\ data.items[2] = Str0(Token(<<"B">>))
    /\ once.items[1] = Str0(repl_vars[1][2])
    /\ once.items[2] = Str0(Token(<<"B">>))
    /\ once.keys = data.keys

(***************************************************************************)
(* config/loader.py.  An Artifact message is a record of the proto3 fields *)
(* the loader reads; a string field that is unset holds the empty string,  *)
(* a repeated field that is unset holds the empty sequence.  Paths are     *)
(* strings, that is sequences of characters.                               *)
(***************************************************************************)
MaxArtifacts == 3

ArtifactNames == {"a", "b"}
RequestedNames == {"a", "c"}
InputDirs == {<<".">>, <<"/", "x">>}

Target(n) == [name |-> n]
TargetLists == {<<>>, <<Target("t"), Target("t")>>, <<Target("t"), Target("u")>>}

\* The path and dependency fields a message sets: none, relative ones, or a
\* mix of absolute and relative ones.
NoFields ==
    [service_yaml |-> <<>>, gapic_yaml |-> <<>>, import_proto_path |-> <<>>,
     src_proto_paths |-> <<>>, proto_deps |-> <<>>]
RelativeFields ==
    [service_yaml |-> <<"s">>, gapic_yaml |-> <<"g">>,
     import_proto_path |-> << <<"i">> >>,
     src_proto_paths |-> << <<"p">> >>, proto_deps |-> <<"d">>]
MixedFields ==
    [service_yaml |-> <<"/", "s">>, gapic_yaml |-> <<>>,
     import_proto_path |-> << <<"/", "i">>, <<"j">> >>,
     src_proto_paths |-> << <<"q">>, <<"/", "p">> >>, proto_deps |-> <<"e">>]
FieldProfiles == {NoFields, RelativeFields, MixedFields}

Message(n, f, t) ==
    [name |-> n, service_yaml |-> f.service_yaml, gapic_yaml |-> f.gapic_yaml,
     import_proto_path |-> f.import_proto_path,
     src_proto_paths |-> f.src_proto_paths, proto_deps |-> f.proto_deps,
     publish_targets |-> t]

\* the common section: any of the profiles, and one with a publish target
CommonMessages ==
    {Message("", f, <<>>) : f \in FieldProfiles}
        \cup {Message("", RelativeFields, <<Target("t")>>)}
ArtifactMessages ==
    {Message(n, f, t) : n \in ArtifactNames, f \in FieldProfiles, t \in TargetLists}

Configs ==
    [common : CommonMessages,
     artifacts : UNION {[1..n -> ArtifactMessages] : n \in 0..MaxArtifacts}]

ScalarFields == {"name", "service_yaml", "gapic_yaml"}
RepeatedFields ==
    {"import_proto_path", "src_proto_paths", "proto_deps", "publish_targets"}

\* What _validate_artman_config returns: None, or the message of the first
\* violation it meets.
NoError == [kind |-> "none", target |-> "", artifact |-> "", valid_values |-> <<>>]
ArtifactTwice(a) ==
    [kind |-> "artifact_twice", target |-> "", artifact |-> a, valid_values |-> <<>>]
TargetTwice(t, a) ==
    [kind |-> "target_twice", target |-> t, artifact |-> a, valid_values |-> <<>>]
NoSuchArtifact(names) ==
    [kind |-> "no_artifact", target |-> "", artifact |-> "", valid_values |-> names]

RECURSIVE ValidateTargets(_, _, _, _), ValidateArtifacts(_, _, _)
RECURSIVE ValidateArtifacts_SharedTargets(_, _, _, _)

\* for target in artifact.publish_targets, from position j with `targets` seen
ValidateTargets(artifact, j, targets, rest) ==
    IF j > Len(artifact.publish_targets) THEN rest
    ELSE LET target == artifact.publish_targets[j]
         IN  IF target.name \in targets
             THEN TargetTwice(target.name, artifact.name)
             ELSE ValidateTargets(artifact, j + 1, targets \cup {target.name}, rest)

\* for artifact in config_pb.artifacts, from position i with `artifacts` seen
ValidateArtifacts(arts, i, artifacts) ==
    IF i > Len(arts) THEN NoError
    ELSE IF arts[i].name \in artifacts THEN ArtifactTwice(arts[i].name)
    ELSE LET r == ValidateTargets(arts[i], 1, {}, NoError)
         IN  IF r # NoError THEN r
             ELSE ValidateArtifacts(arts, i + 1, artifacts \cup {arts[i].name})

\* Mutant: `targets = set()` sits before the outer loop, so the target names
\* seen in one artifact are still there for the next.
ValidateArtifacts_SharedTargets(arts, i, artifacts, targets) ==
    IF i > Len(arts) THEN NoError
    ELSE IF arts[i].name \in artifacts THEN ArtifactTwice(arts[i].name)
    ELSE LET r == ValidateTargets(arts[i], 1, targets, NoError)
         IN  IF r # NoError THEN r
             ELSE ValidateArtifacts_SharedTargets(
                      arts, i + 1, artifacts \cup {arts[i].name},
                      targets \cup {arts[i].publish_targets[j].name :
                                        j \in DOMAIN arts[i].publish_targets})

validate_shared_targets(config_pb) ==
    ValidateArtifacts_SharedTargets(config_pb.artifacts, 1, {}, {})

\* Mutant: the artifact names are never remembered.
validate_forgets_names(config_pb) ==
    LET bad == {i \in DOMAIN config_pb.artifacts :
                    ValidateTargets(config_pb.artifacts[i], 1, {}, NoError) # NoError}
    IN  IF bad = {} THEN NoError
        ELSE ValidateTargets(
                 config_pb.artifacts[CHOOSE i \in bad : \A j \in bad : i <= j],
                 1, {}, NoError)

_validate_artman_config(config_pb) == ValidateArtifacts(config_pb.artifacts, 1, {})

\* the proto3 default of a singular string field
Unset(f) == IF f = "name" THEN "" ELSE <<>>

\* Mutant: a repeated field set on the source replaces the destination's.
MergeFrom_Override(dst, src) ==
    [f \in DOMAIN dst |->
        IF f \in ScalarFields
        THEN IF src[f] # Unset(f) THEN src[f] ELSE dst[f]
        ELSE IF src[f] # <<>> THEN src[f] ELSE dst[f]]

\* protobuf Message.MergeFrom: a singular field set on src overwrites dst's,
\* the elements of a repeated field of src are appended to dst's.
MergeFrom(dst, src) ==
    [f \in DOMAIN dst |->
        IF f \in ScalarFields
        THEN IF src[f] # Unset(f) THEN src[f] ELSE dst[f]
        ELSE dst[f] \o src[f]]

\* os.path.isabs and os.path.join (posixpath) on two components
isabs(path) == Len(path) > 0 /\ path[1] = "/"

join(a, b) ==
    IF isabs(b) THEN b
    ELSE IF a = <<>> \/ a[Len(a)] = "/" THEN a \o b
    ELSE a \o <<"/">> \o b

NormalizeEach(paths, dir) ==
    [i \in DOMAIN paths |-> IF isabs(paths[i]) THEN paths[i] ELSE join(dir, paths[i])]

_normalize_artifact_config(ac, dir) ==
    [ac EXCEPT
        !.service_yaml = IF isabs(@) THEN @ ELSE join(dir, @),
        !.gapic_yaml = IF isabs(@) THEN @ ELSE join(dir, @),
        !.import_proto_path = IF @ = <<>> THEN <<dir>> ELSE NormalizeEach(@, dir),
        !.src_proto_paths = NormalizeEach(@, dir)]

\* positions of the entries named artifact_name
Matching == {i \in DOMAIN config.artifacts : config.artifacts[i].name = artifact_name}
FirstMatch == CHOOSE i \in Matching : \A j \in Matching : i <= j
\* Mutant: the names are listed last to first.
NamesOf_Reversed(arts) ==
    IF arts = <<>> THEN <<>> ELSE [i \in DOMAIN arts |-> arts[Len(arts) + 1 - i].name]

\* valid_values when the loop has run to its end
NamesOf(arts) == IF arts = <<>> THEN <<>> ELSE [i \in DOMAIN arts |-> arts[i].name]

LoaderInit ==
    /\ config \in Configs
    /\ artifact_name \in RequestedNames
    /\ input_dir \in InputDirs
    /\ artifact_config = <<>>
    /\ ld_error = NoError
    /\ ld_result = <<>>
    /\ ld_pc = "start"
    /\ MergeParked /\ ReplParked /\ ConvParked /\ SpecParked /\ NormParked

\* _read_artman_config: the validation passes
ReadArtmanConfig ==
    /\ ld_pc = "start"
    /\ _validate_artman_config(config) = NoError
    /\ ld_pc' = "validated"
    /\ UNCHANGED <<config, artifact_name, input_dir, artifact_config, ld_error,
                   ld_result, notLoader>>

\* _read_artman_config: raise ValueError(validation_result)
ReadRaises ==
    /\ ld_pc = "start"
    /\ _validate_artman_config(config) # NoError
    /\ ld_error' = _validate_artman_config(config)
    /\ ld_pc' = "raised"
    /\ UNCHANGED <<config, artifact_name, input_dir, artifact_config, ld_result,
                   notLoader>>

\* Mutant: the local name is bound to config.common itself.
ArtifactObject_Common == "common"

\* the object the local name artifact_config denotes: a new Artifact() that
\* CopyFrom fills with the fields of config.common
ArtifactObject == "local"

\* the Config once the object artifact_config denotes holds the fields ac
ConfigAfterWrite(cfg, ac) ==
    IF ArtifactObject = "common" THEN [cfg EXCEPT !.common = ac] ELSE cfg

\* CopyFrom(common), then the loop finds the entry and MergeFrom overlays it
ResolveArtifact ==
    /\ ld_pc = "validated"
    /\ Matching # {}
    /\ artifact_config' = MergeFrom(config.common, config.artifacts[FirstMatch])
    /\ config' = ConfigAfterWrite(config, artifact_config')
    /\ ld_pc' = "merged"
    /\ UNCHANGED <<artifact_name, input_dir, ld_error, ld_result, notLoader>>

\* the loop ends without a match: raise ValueError listing valid_values
ResolveRaises ==
    /\ ld_pc = "validated"
    /\ Matching = {}
    /\ artifact_config' = config.common
    /\ ld_error' = NoSuchArtifact(NamesOf(config.artifacts))
    /\ ld_pc' = "raised"
    /\ UNCHANGED <<config, artifact_name, input_dir, ld_result, notLoader>>

\* return _normalize_artifact_config(artifact_config, input_dir)
NormalizeArtifact ==
    /\ ld_pc = "merged"
    /\ artifact_config' = _normalize_artifact_config(artifact_config, input_dir)
    /\ config' = ConfigAfterWrite(config, artifact_config')
    /\ ld_result' = <<artifact_config'>>
    /\ ld_pc' = "returned"
    /\ UNCHANGED <<artifact_name, input_dir, ld_error, notLoader>>

LoaderNext ==
    ReadArtmanConfig \/ ReadRaises \/ ResolveArtifact \/ ResolveRaises
        \/ NormalizeArtifact

SpecLoader == LoaderInit /\ [][LoaderNext]_vars
(***************************************************************************)
(* Claims about load_artifact_config.                                      *)
(***************************************************************************)
Entry == config.artifacts[FirstMatch]

Overlaid == ld_pc \in {"merged", "returned"}

\* C1 as stated: a repeated field the entry sets holds exactly the entry's
\* list after the overlay (none of common's elements), and a scalar field the
\* entry sets holds the entry's value.
C1_Original ==
    /\ ld_pc = "merged" =>
           /\ \A f \in RepeatedFields :
                  Entry[f] # <<>> => artifact_config[f] = Entry[f]
           /\ \A f \in ScalarFields :
                  Entry[f] # Unset(f) => artifact_config[f] = Entry[f]
    /\ ld_pc = "returned" =>
           \A f \in {"proto_deps", "publish_targets"} :
               Entry[f] # <<>> => ld_result[1][f] = Entry[f]

\* C1 amended: the overlay appends.  Every repeated field of the resolved
\* Artifact is common's list followed by the entry's list, each in its own
\* order (in the returned Artifact the path lists are that concatenation
\* normalized element by element); a scalar field the entry sets replaces
\* common's value, one it leaves unset keeps common's value.
C1_OverlayAppends ==
    /\ ld_pc = "merged" =>
           /\ \A f \in RepeatedFields :
                  artifact_config[f] = config.common[f] \o Entry[f]
           /\ \A f \in ScalarFields :
                  artifact_config[f] =
                      IF Entry[f] # Unset(f) THEN Entry[f] ELSE config.common[f]
    /\ ld_pc = "returned" =>
           /\ \A f \in {"proto_deps", "publish_targets"} :
                  ld_result[1][f] = config.common[f] \o Entry[f]
           /\ LET both == config.common.src_proto_paths \o Entry.src_proto_paths
                  got == ld_result[1].src_proto_paths
              IN  /\ Len(got) = Len(both)
                  /\ \A i \in DOMAIN both :
                         got[i] = IF isabs(both[i]) THEN both[i]
                                  ELSE join(input_dir, both[i])
           /\ ld_result[1].name = Entry.name

\* C1 witness: an Artifact was returned for an entry that sets lists and a
\* scalar that common sets too.
C1_Witness ==
    /\ ld_pc = "returned"
    /\ config.common.proto_deps # <<>>
    /\ Entry.proto_deps # <<>>
    /\ config.common.publish_targets # <<>>
    /\ Entry.publish_targets # <<>>
    /\ config.common.src_proto_paths # <<>>
    /\ Entry.src_proto_paths # <<>>
    /\ config.common.service_yaml # <<>>
    /\ Entry.service_yaml # <<>>
    /\ config.common.service_yaml # Entry.service_yaml

AllAbsolute(ac) ==
    /\ isabs(ac.service_yaml)
    /\ isabs(ac.gapic_yaml)
    /\ \A i \in DOMAIN ac.import_proto_path : isabs(ac.import_proto_path[i])
    /\ \A i \in DOMAIN ac.src_proto_paths : isabs(ac.src_proto_paths[i])

\* C4: once _normalize_artifact_config has returned, every path-like field of
\* the Artifact is absolute, whatever the input_dir; a path that was absolute
\* is unchanged, list order is kept, and an empty import_proto_path becomes
\* [input_dir].
C4_NormalizedIsAbsolute ==
    ld_pc = "returned" =>
        LET before == MergeFrom(config.common, Entry)
            after == ld_result[1]
        IN  /\ AllAbsolute(after)
            /\ isabs(before.service_yaml) => after.service_yaml = before.service_yaml
            /\ Len(after.src_proto_paths) = Len(before.src_proto_paths)
            /\ \A i \in DOMAIN before.src_proto_paths :
                   isabs(before.src_proto_paths[i])
                       => after.src_proto_paths[i] = before.src_proto_paths[i]
            /\ before.import_proto_path = <<>>
                   => after.import_proto_path = <<input_dir>>

\* What C4 comes to on the code: the same, for an absolute input_dir only.
C4_AbsoluteInputDir == isabs(input_dir) => C4_NormalizedIsAbsolute

Names == NamesOf(config.artifacts)
TargetsOf(i) == config.artifacts[i].publish_targets

\* entry i repeats the name of an earlier entry
RepeatAt(i) == \E h \in 1..(i - 1) : Names[h] = Names[i]
\* position q of entry i repeats the name of an earlier target of entry i
DupTargetPos(i, q) == \E p \in 1..(q - 1) : TargetsOf(i)[p].name = TargetsOf(i)[q].name
DupTargetAt(i) == \E q \in DOMAIN TargetsOf(i) : DupTargetPos(i, q)

DupNames == {Names[i] : i \in {j \in DOMAIN config.artifacts : RepeatAt(j)}}
HasDupTarget == \E i \in DOMAIN config.artifacts : DupTargetAt(i)

Violating == {i \in DOMAIN config.artifacts : RepeatAt(i) \/ DupTargetAt(i)}
Least(S) == CHOOSE i \in S : \A j \in S : i <= j

\* the first violation in document order: at an entry, the repeated artifact
\* name is met before the entry's publish targets are looked at
FirstViolation ==
    LET i == Least(Violating)
    IN  IF RepeatAt(i) THEN ArtifactTwice(Names[i])
        ELSE TargetTwice(
                 TargetsOf(i)[Least({q \in DOMAIN TargetsOf(i) : DupTargetPos(i, q)})].name,
                 Names[i])

Rejected == ld_pc = "raised" /\ ld_error.kind \in {"artifact_twice", "target_twice"}

NeverResolved ==
    /\ ld_pc \in {"start", "raised"}
    /\ artifact_config = <<>>
    /\ ld_result = <<>>

\* C5 as stated: a Config with a repeated artifact name is rejected before any
\* artifact is resolved, and the error's message names the repeated name.
C5_Original ==
    DupNames # {} =>
        /\ NeverResolved
        /\ ld_pc = "raised" => Rejected /\ ld_error.artifact \in DupNames

\* C5 amended: a Config with a repeated artifact name is rejected before any
\* artifact is resolved or normalized, whichever name is requested, and no
\* Artifact is returned.  The error is the first violation in document order:
\* it names exactly the first repeated artifact name, unless an entry before
\* that repetition has two publish targets of one name, and then it names
\* that target and its artifact.
C5_DuplicateArtifactRejected ==
    DupNames # {} =>
        /\ NeverResolved
        /\ ld_pc = "raised" =>
               /\ Rejected
               /\ ld_error = FirstViolation
               /\ LET r == Least({i \in DOMAIN config.artifacts : RepeatAt(i)})
                  IN  (\A h \in 1..(r - 1) : ~DupTargetAt(h))
                          => ld_error = ArtifactTwice(Names[r])

\* C5 witness: three entries, the second repeats the first, the third has a
\* repeated target; the requested name is in no entry; the error names the
\* repeated artifact name.
C5_Witness ==
    /\ ld_pc = "raised"
    /\ Len(config.artifacts) = 3
    /\ artifact_name = "c"
    /\ RepeatAt(2)
    /\ DupTargetAt(3)
    /\ ~DupTargetAt(1)
    /\ ld_error = ArtifactTwice(Names[2])

\* C6 as stated: two publish targets of one name in an artifact are rejected
\* with an error naming that target and the artifact; a Config without any
\* repeated name in its scope passes validation.
C6_Original ==
    /\ HasDupTarget =>
           /\ NeverResolved
           /\ ld_pc = "raised" =>
                  /\ ld_error.kind = "target_twice"
                  /\ \E i \in DOMAIN config.artifacts :
                         /\ Names[i] = ld_error.artifact
                         /\ \E q \in DOMAIN TargetsOf(i) :
                                /\ DupTargetPos(i, q)
                                /\ TargetsOf(i)[q].name = ld_error.target
    /\ DupNames = {} /\ ~HasDupTarget => ~Rejected

\* C6 amended: validation rejects a Config exactly when an artifact name is
\* repeated in the Config or a publish-target name is repeated within one
\* artifact (the same target name in two artifacts is accepted).  The error
\* is the first violation in document order: a repeated target is reported,
\* with its artifact, when no artifact name is repeated at or before that
\* entry and no earlier entry has a repeated target; otherwise the earlier
\* violation is the one reported.
C6_RejectedIffDuplicateInScope ==
    /\ ld_pc # "start" => (Rejected <=> Violating # {})
    /\ Rejected => ld_error = FirstViolation
    /\ Violating # {} => NeverResolved
    /\ \A i \in DOMAIN config.artifacts :
           /\ Rejected
           /\ DupTargetAt(i)
           /\ \A h \in 1..i : ~RepeatAt(h)
           /\ \A h \in 1..(i - 1) : ~DupTargetAt(h)
           => /\ ld_error.kind = "target_twice"
              /\ ld_error.artifact = Names[i]
              /\ \E q \in DOMAIN TargetsOf(i) :
                     DupTargetPos(i, q) /\ TargetsOf(i)[q].name = ld_error.target

\* C6 witness: the first entry has targets t and u, the second t twice; the
\* error names t and the second entry.
C6_Witness ==
    /\ ld_pc = "raised"
    /\ Len(config.artifacts) = 2
    /\ TargetsOf(1) = <<Target("t"), Target("u")>>
    /\ TargetsOf(2) = <<Target("t"), Target("t")>>
    /\ ld_error = TargetTwice("t", Names[2])

\* A Config whose two entries share their target names passes validation.
C6_SharedAcrossArtifacts ==
    /\ ld_pc = "validated"
    /\ Len(config.artifacts) = 2
    /\ TargetsOf(1) = <<Target("t"), Target("u")>>
    /\ TargetsOf(2) = <<Target("t"), Target("u")>>

ValidConfig == ~(\E i \in DOMAIN config.artifacts : RepeatAt(i) \/ DupTargetAt(i))

Resolving == ld_pc \in {"merged", "returned", "raised"}

\* C16: on a valid Config, a requested name that no entry has ends in the
\* error that lists the name of every entry in document order, and no
\* Artifact is returned; a name that an entry has is resolved from the first
\* such entry without an error.  That error is raised in no other case.
C16_UnknownArtifactListsNames ==
    /\ ld_error.kind = "no_artifact" =>
           /\ ValidConfig /\ Matching = {}
           /\ ld_pc = "raised" /\ ld_result = <<>>
           /\ Len(ld_error.valid_values) = Len(config.artifacts)
           /\ \A i \in DOMAIN config.artifacts :
                  ld_error.valid_values[i] = config.artifacts[i].name
    /\ (ValidConfig /\ Resolving /\ Matching = {}) => ld_error.kind = "no_artifact"
    /\ (ValidConfig /\ Resolving /\ Matching # {}) =>
           /\ ld_pc # "raised" /\ ld_error = NoError
           /\ artifact_config.name = artifact_name
           /\ \A i \in Matching : i >= FirstMatch
           /\ ld_pc = "merged" =>
                  artifact_config = MergeFrom(config.common, config.artifacts[FirstMatch])

\* C16 witness: the Config has entries b and a, in that order, and c was
\* asked for.
C16_Witness ==
    /\ ld_pc = "raised"
    /\ artifact_name = "c"
    /\ Len(config.artifacts) = 2
    /\ config.artifacts[1].name = "b"
    /\ config.artifacts[2].name = "a"
    /\ ld_error.valid_values = <<"b", "a">>
    /\ ld_result = <<>>

\* C17: no step of load_artifact_config changes the parsed Config: the
\* overlay and the normalization write to the local Artifact only, so common
\* and every entry keep the field values they had after validation.
C17_ConfigNeverChanges == [][config' = config]_vars

\* C17 witness: an Artifact was returned whose overlay and normalization both
\* changed fields that common holds.
C17_Witness ==
    /\ ld_pc = "returned"
    /\ config.common.service_yaml = <<"s">>
    /\ config.common.publish_targets # <<>>
    /\ config.artifacts[FirstMatch].publish_targets # <<>>
    /\ ld_result[1].service_yaml # config.common.service_yaml
    /\ ld_result[1].publish_targets # config.common.publish_targets
    /\ ld_result[1].src_proto_paths # config.common.src_proto_paths

(***************************************************************************)
(* cli/converter.py, legacy document -> Config.  A key that a mapping does *)
(* not hold is modelled by the falsy value of its kind ("" for a string,   *)
(* <<>> for a list) together with a has_* flag where the code tells the    *)
(* two apart.  A mapping that is iterated is the sequence of its items.    *)
(***************************************************************************)
MaxPaths == 2

\* Mutant: the languages are visited last to first.
LANGS_Reversed == <<"nodejs", "csharp", "go", "ruby", "php", "python", "java">>

LANGS == <<"java", "python", "php", "ruby", "go", "csharp", "nodejs">>

GOOGLEAPIS == <<"$", "{", "G", "O", "O", "G", "L", "E", "A", "P", "I", "S", "}", "/">>
REPOROOT == <<"$", "{", "R", "E", "P", "O", "R", "O", "O", "T", "}", "/">>

\* Python's None where a string is expected
None == <<"None">>

startswith(value, prefix) ==
    Len(value) >= Len(prefix) /\ SubSeq(value, 1, Len(prefix)) = prefix

_sanitize_repl_var(value) ==
    IF startswith(value, GOOGLEAPIS) THEN str_replace(value, GOOGLEAPIS, <<>>)
    ELSE IF startswith(value, REPOROOT) THEN str_replace(value, REPOROOT, <<>>)
    ELSE None

_compute_src_proto_paths(src_proto_paths) ==
    [i \in DOMAIN src_proto_paths |-> _sanitize_repl_var(src_proto_paths[i])]

_compute_deps(proto_deps) == [i \in DOMAIN proto_deps |-> [name |-> proto_deps[i]]]

\* an item of a repo's `paths`: a bare string or a mapping
BarePath(d) == [kind |-> "str", str |-> d, src |-> "", dest |-> "", artifact |-> ""]
StructPath(a, b, c) == [kind |-> "dict", str |-> "", src |-> a, dest |-> b, artifact |-> c]

DirectoryMapping(a, b, c) == [src |-> a, dest |-> b, name |-> c]

\* result.append(mapping) sits in the else branch: a bare string sets
\* mapping.dest on a message that is then dropped.
_compute_directory_mappings(paths) ==
    LET kept == SelectSeq(paths, LAMBDA path : path.kind # "str")
    IN  [i \in DOMAIN kept |->
            DirectoryMapping(kept[i].src, kept[i].dest, kept[i].artifact)]

RepoKeys(repos) == {repos[i].key : i \in DOMAIN repos}
RepoAt(repos, k) == repos[CHOOSE i \in DOMAIN repos : repos[i].key = k]

\* common_git_repos as _compute_artifacts sets it: the mapping when
\* legacy_common.get('git_repos') is truthy, else the list [].
CommonGitRepos(legacy_common) ==
    IF legacy_common.git_repos # <<>>
    THEN [is_dict |-> TRUE, repos |-> legacy_common.git_repos]
    ELSE [is_dict |-> FALSE, repos |-> <<>>]

\* `common_git_repos.keys()` on a list raises AttributeError; it is evaluated
\* once per item of git_repos.
PublishTargetsRaise(git_repos, common_git_repos) ==
    git_repos # <<>> /\ ~common_git_repos.is_dict

_compute_publish_targets(git_repos, common_git_repos) ==
    [i \in DOMAIN git_repos |->
        LET k == git_repos[i].key
            v == git_repos[i]
        IN  [name |-> k,
             location |-> IF k \in RepoKeys(common_git_repos.repos)
                          THEN RepoAt(common_git_repos.repos, k).location
                          ELSE v.location,
             type |-> "GITHUB",
             directory_mappings |-> IF v.has_paths
                                    THEN _compute_directory_mappings(v.paths)
                                    ELSE <<>>]]

\* Mutant: package_type is looked at before packaging.
_compute_artifact_type_GrpcFirst(legacy_common) ==
    IF legacy_common.package_type = "grpc_common" THEN "GRPC_COMMON"
    ELSE IF legacy_common.packaging = "google-cloud" THEN "GAPIC_ONLY"
    ELSE "GAPIC"

_compute_artifact_type(legacy_common) ==
    IF legacy_common.packaging = "google-cloud" THEN "GAPIC_ONLY"
    ELSE IF legacy_common.package_type = "grpc_common" THEN "GRPC_COMMON"
    ELSE "GAPIC"

upper(x) ==
    CASE x = "java" -> "JAVA" [] x = "python" -> "PYTHON" [] x = "php" -> "PHP"
      [] x = "ruby" -> "RUBY" [] x = "go" -> "GO" [] x = "csharp" -> "CSHARP"
      [] x = "nodejs" -> "NODEJS" [] x = "ga" -> "GA" [] x = "alpha" -> "ALPHA"
      [] OTHER -> x

\* the body of the loop of _compute_artifacts for a non-empty section
BuildArtifactFor(lang, section, legacy_common) ==
    [name |-> lang \o "_gapic",
     language |-> upper(lang),
     release_level |-> IF section.has_release_level
                       THEN upper(section.release_level)
                       ELSE "RELEASE_LEVEL_UNSPECIFIED",
     type |-> _compute_artifact_type(legacy_common),
     package_version |->
         IF section.has_package_version
         THEN [grpc_dep_lower_bound |-> section.generated_package_version.lower,
               grpc_dep_upper_bound |-> section.generated_package_version.upper]
         ELSE [grpc_dep_lower_bound |-> "", grpc_dep_upper_bound |-> ""],
     publish_targets |->
         IF section.has_git_repos
         THEN _compute_publish_targets(section.git_repos,
                                       CommonGitRepos(legacy_common))
         ELSE <<>>]

\* Mutant: a legacy document without `common` is converted all the same.
CommonMissing_Never(lc) == FALSE

\* 'common' not in legacy_config
CommonMissing(lc) == ~lc.has_common

\* legacy_common.get(<field>, 'unspecified'); a missing key is ""
GetOrUnspecified(value) == IF value = "" THEN "unspecified" ELSE value

\* the common section of the result, as lines 75-96 fill it
ConvertedCommon(legacy_common) ==
    [api_name |-> GetOrUnspecified(legacy_common.api_name),
     api_version |-> GetOrUnspecified(legacy_common.api_version),
     organization_name |-> GetOrUnspecified(legacy_common.organization_name),
     gapic_yaml |-> IF legacy_common.gapic_api_yaml # <<>>
                    THEN _sanitize_repl_var(legacy_common.gapic_api_yaml[1])
                    ELSE <<>>,
     service_yaml |-> IF legacy_common.service_yaml # <<>>
                      THEN _sanitize_repl_var(legacy_common.service_yaml[1])
                      ELSE <<>>,
     proto_deps |-> _compute_deps(legacy_common.proto_deps),
     test_proto_deps |-> _compute_deps(legacy_common.proto_test_deps),
     src_proto_paths |-> _compute_src_proto_paths(legacy_common.src_proto_path)]

\* assigning None to a string field of a protobuf message raises TypeError
CommonRaises(legacy_common) ==
    LET c == ConvertedCommon(legacy_common)
    IN  \/ c.gapic_yaml = None
        \/ c.service_yaml = None
        \/ \E i \in DOMAIN c.src_proto_paths : c.src_proto_paths[i] = None

(***************************************************************************)
(* The legacy documents the conversion is run on.                          *)
(***************************************************************************)
G(t) == GOOGLEAPIS \o t
R(t) == REPOROOT \o t

CommonFiles ==
    { [service_yaml |-> <<>>, gapic_api_yaml |-> <<>>, src_proto_path |-> <<>>,
       proto_deps |-> <<>>, proto_test_deps |-> <<>>],
      [service_yaml |-> <<G(<<"s">>)>>, gapic_api_yaml |-> <<R(<<"g">>)>>,
       src_proto_path |-> <<G(<<"p">>), R(<<"q">>)>>,
       proto_deps |-> <<"d1", "d2">>, proto_test_deps |-> <<"t1">>],
      [service_yaml |-> <<G(G(<<"s">>))>>, gapic_api_yaml |-> <<>>,
       src_proto_path |-> <<R(<<"p">> \o REPOROOT)>>,
       proto_deps |-> <<>>, proto_test_deps |-> <<>>],
      [service_yaml |-> << <<"s">> >>, gapic_api_yaml |-> <<>>,
       src_proto_path |-> <<>>, proto_deps |-> <<>>, proto_test_deps |-> <<>>] }

CommonNames ==
    { [api_name |-> "n", api_version |-> "v", organization_name |-> "o"],
      [api_name |-> "", api_version |-> "v", organization_name |-> "o"],
      [api_name |-> "n", api_version |-> "", organization_name |-> "o"],
      [api_name |-> "n", api_version |-> "v", organization_name |-> ""],
      [api_name |-> "", api_version |-> "", organization_name |-> ""] }

CommonRepos(k, l) == [key |-> k, location |-> l]
CommonGitRepoChoices == {<<>>, <<CommonRepos("r1", "LC")>>}

Packagings == {"", "google-cloud"}
PackageTypes == {"", "grpc_common"}

LegacyCommons ==
    {[api_name |-> n.api_name, api_version |-> n.api_version,
      organization_name |-> n.organization_name,
      service_yaml |-> f.service_yaml, gapic_api_yaml |-> f.gapic_api_yaml,
      src_proto_path |-> f.src_proto_path, proto_deps |-> f.proto_deps,
      proto_test_deps |-> f.proto_test_deps,
      packaging |-> pk, package_type |-> pt, git_repos |-> g] :
        n \in CommonNames, f \in CommonFiles, pk \in Packagings,
        pt \in PackageTypes, g \in CommonGitRepoChoices}

PathItems == {BarePath("b"), StructPath("s", "d", "a"), StructPath("", "e", "")}
PathLists == UNION {[1..n -> PathItems] : n \in 0..MaxPaths}

Repo(k, l, hp, ps) == [key |-> k, location |-> l, has_paths |-> hp, paths |-> ps]

LangGitRepoChoices ==
    {<<>>, <<Repo("r1", "L1", FALSE, <<>>)>>,
     <<Repo("r2", "L2", TRUE, <<StructPath("s", "d", "a")>>),
       Repo("r1", "L1", FALSE, <<>>)>>}
        \cup {<<Repo("r1", "L1", TRUE, ps)>> : ps \in PathLists}

Section(p, e, hr, rl, hv, lo, up, hg, g) ==
    [present |-> p, empty |-> e, has_release_level |-> hr, release_level |-> rl,
     has_package_version |-> hv,
     generated_package_version |-> [lower |-> lo, upper |-> up],
     has_git_repos |-> hg, git_repos |-> g]

AbsentSection == Section(FALSE, TRUE, FALSE, "", FALSE, "", "", FALSE, <<>>)
EmptySection == Section(TRUE, TRUE, FALSE, "", FALSE, "", "", FALSE, <<>>)
SimpleSection == Section(TRUE, FALSE, TRUE, "alpha", FALSE, "", "", FALSE, <<>>)

FullSections ==
    {Section(TRUE, FALSE, TRUE, "ga", hv, IF hv THEN "1.0.0" ELSE "",
             IF hv THEN up ELSE "", TRUE, g) :
        hv \in BOOLEAN, up \in {"", "2.0.0"}, g \in LangGitRepoChoices}

\* the sections of a legacy document, by language: `java` takes every shape,
\* `python` and `nodejs` the plain ones, the other languages have no section
SectionsOf(j, p, n) ==
    [l \in {LANGS[i] : i \in DOMAIN LANGS} |->
        IF l = "java" THEN j
        ELSE IF l = "python" THEN p
        ELSE IF l = "nodejs" THEN n
        ELSE AbsentSection]

NoCommon ==
    [api_name |-> "", api_version |-> "", organization_name |-> "",
     service_yaml |-> <<>>, gapic_api_yaml |-> <<>>, src_proto_path |-> <<>>,
     proto_deps |-> <<>>, proto_test_deps |-> <<>>,
     packaging |-> "", package_type |-> "", git_repos |-> <<>>]

LegacyConfigs ==
    {[has_common |-> hc, common |-> IF hc THEN c ELSE NoCommon,
      sections |-> SectionsOf(j, p, n)] :
        hc \in BOOLEAN, c \in LegacyCommons,
        j \in {AbsentSection, EmptySection, SimpleSection} \cup FullSections,
        p \in {AbsentSection, EmptySection, SimpleSection},
        n \in {AbsentSection, SimpleSection}}

ConvInit ==
    /\ legacy_config \in LegacyConfigs
    /\ result_common = <<>>
    /\ cv_artifacts = <<>>
    /\ cv_lang = 1
    /\ cv_error = ""
    /\ cv_result = <<>>
    /\ cv_pc = "start"
    /\ MergeParked /\ ReplParked /\ LoaderParked /\ SpecParked /\ NormParked

\* lines 71-73: print the message about `common` and sys.exit(2)
ConvertExits ==
    /\ cv_pc = "start"
    /\ CommonMissing(legacy_config)
    /\ cv_error' = "common"
    /\ cv_pc' = "exited"
    /\ UNCHANGED <<legacy_config, result_common, cv_artifacts, cv_lang, cv_result,
                   notConv>>

\* lines 74-96: the common section is filled
ConvertCommon ==
    /\ cv_pc = "start"
    /\ ~CommonMissing(legacy_config)
    /\ ~CommonRaises(legacy_config.common)
    /\ result_common' = ConvertedCommon(legacy_config.common)
    /\ cv_pc' = "artifacts"
    /\ UNCHANGED <<legacy_config, cv_artifacts, cv_lang, cv_error, cv_result, notConv>>

\* lines 82-96: a path without a known prefix is sanitized to None
ConvertCommonRaises ==
    /\ cv_pc = "start"
    /\ ~CommonMissing(legacy_config)
    /\ CommonRaises(legacy_config.common)
    /\ cv_error' = "TypeError"
    /\ cv_pc' = "raised"
    /\ UNCHANGED <<legacy_config, result_common, cv_artifacts, cv_lang, cv_result,
                   notConv>>

Visited == legacy_config.sections[LANGS[cv_lang]]

\* lines 113-116: no section for the language, or an empty one
SkipLanguage ==
    /\ cv_pc = "artifacts"
    /\ cv_lang <= Len(LANGS)
    /\ ~Visited.present \/ Visited.empty
    /\ cv_lang' = cv_lang + 1
    /\ UNCHANGED <<legacy_config, result_common, cv_artifacts, cv_error, cv_result,
                   cv_pc, notConv>>

\* lines 117-143: one artifact is built and appended
BuildArtifact ==
    /\ cv_pc = "artifacts"
    /\ cv_lang <= Len(LANGS)
    /\ Visited.present /\ ~Visited.empty
    /\ ~(Visited.has_git_repos
            /\ PublishTargetsRaise(Visited.git_repos,
                                   CommonGitRepos(legacy_config.common)))
    /\ cv_artifacts' =
           Append(cv_artifacts,
                  BuildArtifactFor(LANGS[cv_lang], Visited, legacy_config.common))
    /\ cv_lang' = cv_lang + 1
    /\ UNCHANGED <<legacy_config, result_common, cv_error, cv_result, cv_pc, notConv>>

\* lines 140-142, 168-169: _compute_publish_targets raises AttributeError
BuildArtifactRaises ==
    /\ cv_pc = "artifacts"
    /\ cv_lang <= Len(LANGS)
    /\ Visited.present /\ ~Visited.empty
    /\ Visited.has_git_repos
    /\ PublishTargetsRaise(Visited.git_repos, CommonGitRepos(legacy_config.common))
    /\ cv_error' = "AttributeError"
    /\ cv_pc' = "raised"
    /\ UNCHANGED <<legacy_config, result_common, cv_artifacts, cv_lang, cv_result,
                   notConv>>

\* lines 98-99: result.artifacts.extend(...); return result
ConvertReturn ==
    /\ cv_pc = "artifacts"
    /\ cv_lang > Len(LANGS)
    /\ cv_result' = <<[common |-> result_common, artifacts |-> cv_artifacts]>>
    /\ cv_pc' = "returned"
    /\ UNCHANGED <<legacy_config, result_common, cv_artifacts, cv_lang, cv_error,
                   notConv>>

ConvNext ==
    ConvertExits \/ ConvertCommon \/ ConvertCommonRaises \/ SkipLanguage
        \/ BuildArtifact \/ BuildArtifactRaises \/ ConvertReturn

SpecConvert == ConvInit /\ [][ConvNext]_vars

(***************************************************************************)
(* Claims about the conversion.                                            *)
(***************************************************************************)
RequiredCommonFields == {"api_name", "api_version", "organization_name"}

MissingFields ==
    {f \in RequiredCommonFields : legacy_config.has_common /\ legacy_config.common[f] = ""}

SomeSectionFilled ==
    \E i \in DOMAIN LANGS :
        legacy_config.sections[LANGS[i]].present /\ ~legacy_config.sections[LANGS[i]].empty

NothingProduced == cv_result = <<>> /\ cv_artifacts = <<>> /\ result_common = <<>>

\* C7 as stated: a legacy document that lacks the common section, or one of
\* api_name, api_version and organization_name in it, is never converted: no
\* common section is filled, no artifact is built and no Config is returned.
C7_Original ==
    (~legacy_config.has_common \/ MissingFields # {}) => NothingProduced

\* C7, amended: conversion fails fast exactly when the `common` section is
\* missing: it then stops with the message about `common` before anything
\* is filled or built, and it stops that way for no other document.  A
\* common section without api_name, api_version or organization_name is
\* converted, and the returned Config holds 'unspecified' in that field.
C7_OnlyMissingCommonExits ==
    /\ (cv_pc # "start" /\ ~legacy_config.has_common) =>
           (cv_pc = "exited" /\ cv_error = "common" /\ cv_lang = 1 /\ NothingProduced)
    /\ cv_pc = "exited" => ~legacy_config.has_common
    /\ cv_pc = "returned" =>
           \A f \in RequiredCommonFields :
               cv_result[1].common[f] =
                   IF f \in MissingFields THEN "unspecified" ELSE legacy_config.common[f]

\* the exit has been taken on a document whose language sections would
\* otherwise have been built
C7_Witness ==
    cv_pc = "exited" /\ ~legacy_config.has_common /\ SomeSectionFilled

\* a document with a required field missing has been converted
C7_DefaultedWitness ==
    cv_pc = "returned" /\ MissingFields # {} /\ cv_artifacts # <<>>

LangOf(artifact) ==
    LANGS[CHOOSE i \in DOMAIN LANGS : upper(LANGS[i]) = artifact.language]

\* the mapping the claim describes for one item of `paths`
ExpectedMapping(path) ==
    IF path.kind = "str" THEN DirectoryMapping("", path.str, "")
    ELSE DirectoryMapping(path.src, path.dest, path.artifact)

MappingsAsClaimed(target, repo) ==
    repo.has_paths =>
        /\ Len(target.directory_mappings) = Len(repo.paths)
        /\ \A k \in DOMAIN repo.paths :
               target.directory_mappings[k] = ExpectedMapping(repo.paths[k])

\* C8: every publish target of every built artifact has one directory mapping
\* per item of the repo's `paths`, in order: dest alone for a bare string,
\* src, dest and artifact (as name) for a structured item.
C8_OneMappingPerItem ==
    \A i \in DOMAIN cv_artifacts :
        LET repos == legacy_config.sections[LangOf(cv_artifacts[i])].git_repos
        IN  \A j \in DOMAIN cv_artifacts[i].publish_targets :
                MappingsAsClaimed(cv_artifacts[i].publish_targets[j], repos[j])

\* C8 restricted to the items the code keeps: the structured items of
\* `paths` are mapped in order, the bare strings are left out.
C8_StructuredItemsOnly ==
    \A i \in DOMAIN cv_artifacts :
        LET repos == legacy_config.sections[LangOf(cv_artifacts[i])].git_repos
        IN  \A j \in DOMAIN cv_artifacts[i].publish_targets :
                LET kept == SelectSeq(repos[j].paths, LAMBDA q : q.kind = "dict")
                IN  repos[j].has_paths =>
                        cv_artifacts[i].publish_targets[j].directory_mappings =
                            [k \in DOMAIN kept |-> ExpectedMapping(kept[k])]

LocationAsClaimed(target, repo) ==
    /\ target.name = repo.key
    /\ target.location =
           IF repo.key \in RepoKeys(legacy_config.common.git_repos)
           THEN RepoAt(legacy_config.common.git_repos, repo.key).location
           ELSE repo.location

\* C9: conversion never fails on the git_repos of a language section, whether
\* or not the common section has a git_repos mapping, and every publish
\* target takes its location from common.git_repos when the repo key is
\* there and from the language-specific entry otherwise.
C9_LocationFromCommonElseLanguage ==
    /\ cv_error # "AttributeError"
    /\ \A i \in DOMAIN cv_artifacts :
           LET section == legacy_config.sections[LangOf(cv_artifacts[i])]
           IN  section.has_git_repos =>
                   /\ Len(cv_artifacts[i].publish_targets) = Len(section.git_repos)
                   /\ \A j \in DOMAIN section.git_repos :
                          LocationAsClaimed(cv_artifacts[i].publish_targets[j],
                                            section.git_repos[j])

\* C9 restricted to documents whose common section has a non-empty
\* git_repos mapping.
C9_WithCommonGitRepos ==
    legacy_config.common.git_repos # <<>> => C9_LocationFromCommonElseLanguage

(***************************************************************************)
(* config_util.load_config_spec.  The YAML document is a function from the *)
(* names of its sections to their mappings (values as for merge); a scalar *)
(* n of a section stands for the string ScalarText(n), which is what       *)
(* replace_vars works on.                                                  *)
(***************************************************************************)
RECURSIVE lstrip(_), split(_, _)

\* str.strip() for the whitespace of a spec string
lstrip(t) == IF t # <<>> /\ Head(t) = " " THEN lstrip(Tail(t)) ELSE t
rstrip(t) ==
    LET Rev(q) == [i \in DOMAIN q |-> q[Len(q) + 1 - i]]
    IN  Rev(lstrip(Rev(t)))
strip(t) == rstrip(lstrip(t))

\* str.split(sep) for a one-character sep: always at least one part
split(t, sep) ==
    IF \A i \in DOMAIN t : t[i] # sep THEN <<t>>
    ELSE LET i == CHOOSE j \in DOMAIN t : t[j] = sep /\ \A h \in 1..(j - 1) : t[h] # sep
         IN  <<SubSeq(t, 1, i - 1)>> \o split(SubSeq(t, i + 1, Len(t)), sep)

\* lines 27-30: the sections named in the spec, else the caller's
SectionsOf_Spec(spec, default_sections) ==
    LET config_split == split(strip(spec), ":")
    IN  IF Len(config_split) > 1 THEN split(config_split[2], "|")
        ELSE default_sections

HasSection(doc, name) == name \in DOMAIN doc /\ doc[name].present

\* line 36: all_config_data[i] raises KeyError for a section the document lacks
SelectRaises(doc, sections) == \E i \in DOMAIN sections : ~HasSection(doc, sections[i])

\* line 37: all_config_data.get(language, {})
LanguageSegment(doc, lang) == IF HasSection(doc, lang) THEN doc[lang].value ELSE EmptyDict

\* Mutant: the language section is merged first.
SegmentsFor_LanguageFirst(doc, sections, lang) ==
    <<LanguageSegment(doc, lang)>> \o [i \in DOMAIN sections |-> doc[sections[i]].value]

\* lines 36-37
SegmentsFor(doc, sections, lang) ==
    [i \in DOMAIN sections |-> doc[sections[i]].value] \o <<LanguageSegment(doc, lang)>>

ScalarText(n) == IF n = 1 THEN <<"v">> ELSE Token(<<"A">>)

\* replace_vars on a merged value: a string is resolved, a list is rebuilt
\* from its resolved elements, a set is returned as it is
ResolvedLeaf(v, r) ==
    [kind |-> v.kind,
     text |-> IF v.kind = "scalar" THEN ReplaceEach(ScalarText(v.s), r) ELSE <<>>,
     l |-> [i \in DOMAIN v.l |-> ReplaceEach(ScalarText(v.l[i]), r)],
     e |-> {ScalarText(n) : n \in v.e}]

ResolvedValue(v, r) ==
    [kind |-> v.kind,
     text |-> ResolvedLeaf(v, r).text,
     l |-> ResolvedLeaf(v, r).l,
     e |-> ResolvedLeaf(v, r).e,
     d |-> [x \in DOMAIN v.d |-> ResolvedLeaf(v.d[x], r)]]

\* line 43: replace_vars(config, repl_vars) on the merged mapping
ResolvedConfig(c, r) == [k \in DOMAIN c |-> ResolvedValue(c[k], r)]

SectionNames == {<<"s">>, <<"t">>, <<"j">>}
Languages == {<<"j">>, <<"k">>}

OneKey(k, v) == [h \in Keys |-> IF h = k THEN v ELSE Absent1]

SectionValues ==
    {EmptyDict, OneKey("a", Lift(Scalar0(1))), OneKey("a", Lift(Scalar0(2))),
     OneKey("a", Lift(List0(<<1>>))), OneKey("b", Lift(List0(<<1>>))),
     OneKey("a", Dict1([x \in NestedKeys |-> Scalar0(1)])),
     [h \in Keys |-> IF h = "a" THEN Lift(Scalar0(2)) ELSE Lift(List0(<<2, 1>>))]}

SectionChoices ==
    {[present |-> FALSE, value |-> EmptyDict]}
        \cup {[present |-> TRUE, value |-> v] : v \in SectionValues}

Documents == [SectionNames -> SectionChoices]

ConfigSpecs ==
    {<<"p">>, <<"p", ":", "s">>, <<"p", ":", "s", "|", "t">>,
     <<"p", ":", "t", "|", "s">>, <<" ", "p", ":", "t", " ">>, <<"p", ":">>,
     <<"p", ":", "u">>, <<"p", ":", "s", ":", "t">>}

DefaultSections == {<<>>, << <<"s">> >>, << <<"s">>, <<"t">> >>, << <<"t">>, <<"s">> >>}

SpecReplDicts == {<<>>, << <<<<"A">>, <<"x">>>> >>}

SpecInit ==
    /\ config_spec \in ConfigSpecs
    /\ config_sections \in DefaultSections
    /\ all_config_data \in Documents
    /\ language \in Languages
    /\ lcs_repl_vars \in SpecReplDicts
    /\ segments = <<>>
    /\ lcs_config = <<>>
    /\ lcs_result = <<>>
    /\ lcs_error = ""
    /\ lcs_pc = "start"
    /\ MergeParked /\ ReplParked /\ LoaderParked /\ ConvParked /\ NormParked

\* lines 27-37: the segments are picked
SelectSegments ==
    /\ lcs_pc = "start"
    /\ ~SelectRaises(all_config_data, SectionsOf_Spec(config_spec, config_sections))
    /\ segments' = SegmentsFor(all_config_data,
                               SectionsOf_Spec(config_spec, config_sections), language)
    /\ lcs_pc' = "selected"
    /\ UNCHANGED <<config_spec, config_sections, all_config_data, language,
                   lcs_repl_vars, lcs_config, lcs_result, lcs_error, notSpec>>

\* line 36: KeyError
SelectSegmentsRaises ==
    /\ lcs_pc = "start"
    /\ SelectRaises(all_config_data, SectionsOf_Spec(config_spec, config_sections))
    /\ lcs_error' = "KeyError"
    /\ lcs_pc' = "raised"
    /\ UNCHANGED <<config_spec, config_sections, all_config_data, language,
                   lcs_repl_vars, segments, lcs_config, lcs_result, notSpec>>

\* line 40: config = merge(*segments)
MergeSegments ==
    /\ lcs_pc = "selected"
    /\ ~MergeRaises(EmptyDict, segments)
    /\ lcs_config' = <<MergeFold(EmptyDict, segments)>>
    /\ lcs_pc' = "merged"
    /\ UNCHANGED <<config_spec, config_sections, all_config_data, language,
                   lcs_repl_vars, segments, lcs_result, lcs_error, notSpec>>

\* line 40: merge raises ValueError
MergeSegmentsRaises ==
    /\ lcs_pc = "selected"
    /\ MergeRaises(EmptyDict, segments)
    /\ lcs_error' = "ValueError"
    /\ lcs_pc' = "raised"
    /\ UNCHANGED <<config_spec, config_sections, all_config_data, language,
                   lcs_repl_vars, segments, lcs_config, lcs_result, notSpec>>

\* line 43: return replace_vars(config, repl_vars)
ReturnConfig ==
    /\ lcs_pc = "merged"
    /\ lcs_result' = <<ResolvedConfig(lcs_config[1], lcs_repl_vars)>>
    /\ lcs_pc' = "returned"
    /\ UNCHANGED <<config_spec, config_sections, all_config_data, language,
                   lcs_repl_vars, segments, lcs_config, lcs_error, notSpec>>

SpecNext ==
    SelectSegments \/ SelectSegmentsRaises \/ MergeSegments \/ MergeSegmentsRaises
        \/ ReturnConfig

SpecLoadConfig == SpecInit /\ [][SpecNext]_vars

(***************************************************************************)
(* Claims about load_config_spec.                                          *)
(***************************************************************************)
HasColon == \E i \in DOMAIN config_spec : config_spec[i] = ":"

\* the section names the call selects, before the language
Selected == SectionsOf_Spec(config_spec, config_sections)

\* the language section, or the empty mapping
LanguageSection ==
    IF language \in SectionNames /\ all_config_data[language].present
    THEN all_config_data[language].value
    ELSE EmptyDict

\* the values under key k, section by section in merge order
SegmentValues(k) == [i \in DOMAIN segments |-> segments[i][k]]

\* C13: the segments merged are the mappings of the sections named after
\* ':' in the spec when it has that part, else of the default sections, in
\* their order, and then the language section (empty when the document has
\* none); when a mapping is returned, a key the language section holds as a
\* scalar has the language section's value, resolved, and a key that holds
\* only lists has them concatenated in that order.
C13_LanguageSectionLast ==
    /\ lcs_pc \in {"selected", "merged", "returned"} =>
           /\ Len(segments) = Len(Selected) + 1
           /\ HasColon => \A i \in DOMAIN Selected :
                              \A j \in DOMAIN Selected[i] : Selected[i][j] \in {"s", "t"}
           /\ ~HasColon => Selected = config_sections
           /\ \A i \in DOMAIN Selected :
                  segments[i] = all_config_data[Selected[i]].value
           /\ segments[Len(segments)] = LanguageSection
    /\ lcs_pc = "returned" =>
           \A k \in Keys :
               /\ LanguageSection[k].kind = "scalar" =>
                      lcs_result[1][k] = ResolvedValue(LanguageSection[k], lcs_repl_vars)
               /\ OnlyLists(SegmentValues(k)) =>
                      lcs_result[1][k].l =
                          [i \in DOMAIN ConcatAll(ListsOf(SegmentValues(k))) |->
                              ReplaceEach(ScalarText(ConcatAll(ListsOf(SegmentValues(k)))[i]),
                                          lcs_repl_vars)]

\* C13 witness: the spec names t then s while the defaults say s then t; both
\* hold a list under b, s and the language section a different scalar under a.
C13_Witness ==
    /\ lcs_pc = "returned"
    /\ config_spec = <<"p", ":", "t", "|", "s">>
    /\ config_sections = << <<"s">>, <<"t">> >>
    /\ language = <<"j">>
    /\ all_config_data[<<"t">>].value["b"] = Lift(List0(<<1>>))
    /\ all_config_data[<<"s">>].value["b"] = Lift(List0(<<2, 1>>))
    /\ all_config_data[<<"s">>].value["a"] = Lift(Scalar0(2))
    /\ all_config_data[<<"j">>].value["a"] = Lift(Scalar0(1))
    /\ lcs_repl_vars # <<>>
    /\ lcs_result[1]["a"].text = <<"v">>
    /\ lcs_result[1]["b"].l = << <<"v">>, <<"x">>, <<"v">> >>

\* the supported languages in the order the claim fixes
FixedOrder == <<"java", "python", "php", "ruby", "go", "csharp", "nodejs">>

Filled(lang) ==
    legacy_config.sections[lang].present /\ ~legacy_config.sections[lang].empty

FilledInOrder == SelectSeq(FixedOrder, Filled)

\* C14: the Config returned holds one artifact for each of java, python, php,
\* ruby, go, csharp, nodejs whose section is present and not empty, in that
\* order, named <language>_gapic and of that language, and nothing else; while
\* the artifacts are built their names are pairwise distinct.
C14_OneArtifactPerFilledLanguage ==
    /\ \A i, j \in DOMAIN cv_artifacts :
           i # j => cv_artifacts[i].name # cv_artifacts[j].name
    /\ cv_pc = "returned" =>
           /\ Len(cv_result[1].artifacts) = Len(FilledInOrder)
           /\ \A i \in DOMAIN FilledInOrder :
                  /\ cv_result[1].artifacts[i].name = FilledInOrder[i] \o "_gapic"
                  /\ cv_result[1].artifacts[i].language = upper(FilledInOrder[i])

\* C14 witness: java and nodejs have a section with content, python an empty
\* one: two artifacts come out, java first.
C14_Witness ==
    /\ cv_pc = "returned"
    /\ Filled("java") /\ Filled("nodejs")
    /\ legacy_config.sections["python"].present
    /\ legacy_config.sections["python"].empty
    /\ Len(cv_result[1].artifacts) = 2
    /\ cv_result[1].artifacts[1].name = "java_gapic"
    /\ cv_result[1].artifacts[2].name = "nodejs_gapic"

\* the type the claim derives from the common section
TypeByPrecedence ==
    IF legacy_config.common.packaging = "google-cloud" THEN "GAPIC_ONLY"
    ELSE IF legacy_config.common.package_type = "grpc_common" THEN "GRPC_COMMON"
    ELSE "GAPIC"

\* C15: every artifact built has the type the common section gives by the
\* precedence packaging = "google-cloud", then package_type = "grpc_common",
\* then GAPIC; so all artifacts of a conversion have one type.
C15_TypeFromCommonByPrecedence ==
    /\ \A i \in DOMAIN cv_artifacts : cv_artifacts[i].type = TypeByPrecedence
    /\ cv_pc = "returned" =>
           \A i, j \in DOMAIN cv_result[1].artifacts :
               cv_result[1].artifacts[i].type = cv_result[1].artifacts[j].type

\* C15 witness: packaging and package_type are both set; the three artifacts
\* returned are GAPIC_ONLY.
C15_Witness ==
    /\ cv_pc = "returned"
    /\ legacy_config.common.packaging = "google-cloud"
    /\ legacy_config.common.package_type = "grpc_common"
    /\ Len(cv_result[1].artifacts) = 3
    /\ \A i \in 1..3 : cv_result[1].artifacts[i].type = "GAPIC_ONLY"

\* what the claim describes: the leading known prefix cut off, the rest kept;
\* no value for a string with neither prefix
LeadingPrefixRemoved(value) ==
    IF startswith(value, GOOGLEAPIS) THEN SubSeq(value, Len(GOOGLEAPIS) + 1, Len(value))
    ELSE IF startswith(value, REPOROOT) THEN SubSeq(value, Len(REPOROOT) + 1, Len(value))
    ELSE None

Occurrences(value, prefix) ==
    {i \in 1..(Len(value) - Len(prefix) + 1) :
        SubSeq(value, i, i + Len(prefix) - 1) = prefix}

\* the prefix the value starts with is found nowhere else in it
PrefixOnlyLeads(value) ==
    /\ startswith(value, GOOGLEAPIS) => Occurrences(value, GOOGLEAPIS) = {1}
    /\ (~startswith(value, GOOGLEAPIS) /\ startswith(value, REPOROOT))
           => Occurrences(value, REPOROOT) = {1}

SanitizedAsClaimed(sanitized, value) == sanitized = LeadingPrefixRemoved(value)

\* C18: every path of the common section that the conversion has sanitized
\* is the legacy path without its leading ${GOOGLEAPIS}/ or ${REPOROOT}/, the
\* rest of the string unchanged.
C18_OnlyLeadingPrefixRemoved ==
    result_common # <<>> =>
        /\ legacy_config.common.service_yaml # <<>> =>
               SanitizedAsClaimed(result_common.service_yaml,
                                  legacy_config.common.service_yaml[1])
        /\ legacy_config.common.gapic_api_yaml # <<>> =>
               SanitizedAsClaimed(result_common.gapic_yaml,
                                  legacy_config.common.gapic_api_yaml[1])
        /\ \A i \in DOMAIN legacy_config.common.src_proto_path :
               SanitizedAsClaimed(result_common.src_proto_paths[i],
                                  legacy_config.common.src_proto_path[i])

\* C18 restricted to paths that hold their prefix at the start only.
C18_WhenPrefixOnlyLeads ==
    result_common # <<>> =>
        /\ (legacy_config.common.service_yaml # <<>>
              /\ PrefixOnlyLeads(legacy_config.common.service_yaml[1])) =>
               SanitizedAsClaimed(result_common.service_yaml,
                                  legacy_config.common.service_yaml[1])
        /\ \A i \in DOMAIN legacy_config.common.src_proto_path :
               PrefixOnlyLeads(legacy_config.common.src_proto_path[i]) =>
                   SanitizedAsClaimed(result_common.src_proto_paths[i],
                                      legacy_config.common.src_proto_path[i])

(***************************************************************************)
(* main2.normalize_flags, from the point where the legacy configuration is *)
(* written to `<config>.tmp` (line 229) to its return or raise.  The       *)
(* documents name their sections by the strings the code uses; the calls   *)
(* into `support` of the github branch either succeed or raise.            *)
(***************************************************************************)
MaxPublishTargets == 2

ArtmanConfigPath == <<"p">>
SharedConfigPath == <<"g">>
CommonName == <<"c", "o", "m", "m", "o", "n">>
NfLanguage == <<"j">>
GitReposKey == "b"
NfReplVars == << <<<<"A">>, <<"x">>>> >>

\* line 229: '%s.tmp' % artman_config_path
TmpPath(path) == path \o <<".", "t", "m", "p">>

\* lines 236-244 and 266: the two specs joined with ',' and split again
NfConfigSpecs ==
    split(TmpPath(ArtmanConfigPath) \o <<",">> \o SharedConfigPath, ",")

\* the file a path names: the temporary file holds the legacy configuration
FileAt(path) ==
    IF path = TmpPath(ArtmanConfigPath)
    THEN [exists |-> tmp_exists, doc |-> nf_files.legacy_config_dict]
    ELSE nf_files.shared

\* lines 267-273 into config_util.load_config_spec, with config_sections
\* ['common'] (line 265)
NfSegments(path) ==
    SegmentsFor(FileAt(path).doc, SectionsOf_Spec(path, <<CommonName>>), NfLanguage)

NfLoadError(path) ==
    IF ~FileAt(path).exists THEN "IOError"
    ELSE IF SelectRaises(FileAt(path).doc, SectionsOf_Spec(path, <<CommonName>>))
    THEN "KeyError"
    ELSE IF MergeRaises(EmptyDict, NfSegments(path)) THEN "ValueError"
    ELSE ""

NfLoad(path) == ResolvedConfig(MergeFold(EmptyDict, NfSegments(path)), NfReplVars)

\* line 274: pipeline_args.update(config_args)
update(args, config_args) ==
    [k \in DOMAIN args |->
        IF config_args[k].kind # "absent" THEN config_args[k] ELSE args[k]]

\* lines 317-323: the first target named publish_target, <<>> when none is
_get_publishing_config(artifact_config_pb, publish_target) ==
    LET found == {i \in DOMAIN artifact_config_pb.publish_targets :
                     artifact_config_pb.publish_targets[i].name = publish_target}
    IN  IF found = {} THEN <<>>
        ELSE <<artifact_config_pb.publish_targets[
                   CHOOSE i \in found : \A j \in found : i <= j]>>

NfSectionChoices ==
    {[present |-> FALSE, value |-> EmptyDict],
     [present |-> TRUE, value |-> EmptyDict],
     [present |-> TRUE, value |-> OneKey(GitReposKey, Lift(List0(<<1>>)))],
     [present |-> TRUE, value |-> OneKey(GitReposKey, Lift(Scalar0(1)))]}

NfDocuments == [{CommonName, NfLanguage} -> NfSectionChoices]

NfTargets == [name : {"t", "u"}, type : {"GITHUB", "UNSPECIFIED"}]

NormInit ==
    /\ nf_flags \in [subcommand : {"generate", "publish"}, publish_target : {"t", "u"}]
    /\ nf_artifact \in
           [publish_targets : UNION {[1..n -> NfTargets] : n \in 0..MaxPublishTargets}]
    /\ nf_files \in [legacy_config_dict : NfDocuments,
                     shared : [exists : BOOLEAN, doc : NfDocuments]]
    /\ nf_files.shared.exists \/ nf_files.shared.doc = [n \in {CommonName, NfLanguage} |->
                                                           [present |-> FALSE, value |-> EmptyDict]]
    /\ support_ok \in BOOLEAN
    /\ tmp_exists \in BOOLEAN
    /\ nf_i = 1
    /\ pipeline_args = [config |-> ResolvedConfig(EmptyDict, NfReplVars), publish |-> ""]
    /\ nf_error = ""
    /\ nf_pc = "start"
    /\ MergeParked /\ ReplParked /\ LoaderParked /\ ConvParked /\ SpecParked

\* lines 229-231: open(tmp_legacy_config_yaml, 'w') and yaml.dump
WriteTmpLegacyConfig ==
    /\ nf_pc = "start"
    /\ tmp_exists' = TRUE
    /\ nf_pc' = "loading"
    /\ UNCHANGED <<nf_flags, nf_artifact, nf_files, support_ok, nf_i, pipeline_args,
                   nf_error, notNorm>>

\* lines 266-274: one pass of the loop over the config specs
LoadConfigSpec ==
    /\ nf_pc = "loading"
    /\ nf_i <= Len(NfConfigSpecs)
    /\ NfLoadError(NfConfigSpecs[nf_i]) = ""
    /\ pipeline_args' =
           [pipeline_args EXCEPT !.config = update(@, NfLoad(NfConfigSpecs[nf_i]))]
    /\ nf_i' = nf_i + 1
    /\ UNCHANGED <<nf_flags, nf_artifact, nf_files, support_ok, tmp_exists, nf_error,
                   nf_pc, notNorm>>

\* line 267: load_config_spec raises and the exception leaves normalize_flags
LoadConfigSpecRaises ==
    /\ nf_pc = "loading"
    /\ nf_i <= Len(NfConfigSpecs)
    /\ NfLoadError(NfConfigSpecs[nf_i]) # ""
    /\ nf_error' = NfLoadError(NfConfigSpecs[nf_i])
    /\ nf_pc' = "raised"
    /\ UNCHANGED <<nf_flags, nf_artifact, nf_files, support_ok, tmp_exists, nf_i,
                   pipeline_args, notNorm>>

\* lines 277-278
PublishNoop ==
    /\ nf_pc = "loading"
    /\ nf_i > Len(NfConfigSpecs)
    /\ nf_flags.subcommand = "generate"
    /\ pipeline_args' = [pipeline_args EXCEPT !.publish = "noop"]
    /\ nf_pc' = "published"
    /\ UNCHANGED <<nf_flags, nf_artifact, nf_files, support_ok, tmp_exists, nf_i,
                   nf_error, notNorm>>

\* line 280 into line 323: no target has the name, KeyError
PublishTargetNotFound ==
    /\ nf_pc = "loading"
    /\ nf_i > Len(NfConfigSpecs)
    /\ nf_flags.subcommand = "publish"
    /\ _get_publishing_config(nf_artifact, nf_flags.publish_target) = <<>>
    /\ nf_error' = "KeyError"
    /\ nf_pc' = "raised"
    /\ UNCHANGED <<nf_flags, nf_artifact, nf_files, support_ok, tmp_exists, nf_i,
                   pipeline_args, notNorm>>

\* lines 289-290: the target is not a GITHUB target, NameError
PublishTypeUnsupported ==
    /\ nf_pc = "loading"
    /\ nf_i > Len(NfConfigSpecs)
    /\ nf_flags.subcommand = "publish"
    /\ _get_publishing_config(nf_artifact, nf_flags.publish_target) # <<>>
    /\ _get_publishing_config(nf_artifact, nf_flags.publish_target)[1].type # "GITHUB"
    /\ nf_error' = "NameError"
    /\ nf_pc' = "raised"
    /\ UNCHANGED <<nf_flags, nf_artifact, nf_files, support_ok, tmp_exists, nf_i,
                   pipeline_args, notNorm>>

\* whether lines 282-288 complete: the calls into support succeed and
\* pipeline_args holds `git_repos` for the pop of line 287
GithubCompletes ==
    /\ support_ok
    /\ pipeline_args.config[GitReposKey].kind # "absent"

\* lines 281-288
PublishGithub ==
    /\ nf_pc = "loading"
    /\ nf_i > Len(NfConfigSpecs)
    /\ nf_flags.subcommand = "publish"
    /\ _get_publishing_config(nf_artifact, nf_flags.publish_target) # <<>>
    /\ _get_publishing_config(nf_artifact, nf_flags.publish_target)[1].type = "GITHUB"
    /\ GithubCompletes
    /\ pipeline_args' =
           [config |-> [pipeline_args.config EXCEPT
                           ![GitReposKey] = ResolvedValue(Absent1, NfReplVars)],
            publish |-> "github"]
    /\ nf_pc' = "published"
    /\ UNCHANGED <<nf_flags, nf_artifact, nf_files, support_ok, tmp_exists, nf_i,
                   nf_error, notNorm>>

\* lines 283-288: a call into support raises, or line 287 raises KeyError
PublishGithubRaises ==
    /\ nf_pc = "loading"
    /\ nf_i > Len(NfConfigSpecs)
    /\ nf_flags.subcommand = "publish"
    /\ _get_publishing_config(nf_artifact, nf_flags.publish_target) # <<>>
    /\ _get_publishing_config(nf_artifact, nf_flags.publish_target)[1].type = "GITHUB"
    /\ ~GithubCompletes
    /\ nf_error' = IF support_ok THEN "KeyError" ELSE "SupportError"
    /\ nf_pc' = "raised"
    /\ UNCHANGED <<nf_flags, nf_artifact, nf_files, support_ok, tmp_exists, nf_i,
                   pipeline_args, notNorm>>

\* lines 292-314: log the arguments, os.remove(tmp_legacy_config_yaml), return
RemoveTmpAndReturn ==
    /\ nf_pc = "published"
    /\ tmp_exists' = FALSE
    /\ nf_pc' = "returned"
    /\ UNCHANGED <<nf_flags, nf_artifact, nf_files, support_ok, nf_i, pipeline_args,
                   nf_error, notNorm>>

NormNext ==
    WriteTmpLegacyConfig \/ LoadConfigSpec \/ LoadConfigSpecRaises \/ PublishNoop
        \/ PublishTargetNotFound \/ PublishTypeUnsupported \/ PublishGithub
        \/ PublishGithubRaises \/ RemoveTmpAndReturn

SpecNormalize == NormInit /\ [][NormNext]_vars

\* C20: the temporary legacy config file never outlives the call.  Once
\* normalize_flags has returned or raised after writing `<config>.tmp`, the
\* file does not exist: on the normal return, on a failure while a config spec
\* is loaded or merged, on a publish target that is not found and on an
\* unsupported publish-target type.
C20_TmpFileNeverOutlivesCall == nf_pc \in {"returned", "raised"} => ~tmp_exists

\* C20 on the normal return alone.
C20_TmpFileRemovedOnReturn == nf_pc = "returned" => ~tmp_exists

\* Every raise after the write leaves the file behind.
C20_RaiseLeavesTmpFile == nf_pc = "raised" => tmp_exists

====
